---- MODULE Spec2Model ----
(***************************************************************************)
(* Model of the learning / prediction / training subsystem of              *)
(* ai-autonomous-biz: the metric store and tracking API of LearningEngine  *)
(* (ml/learning-engine.js), its weight update and conversion prediction,   *)
(* the PredictiveEngine (predictive/index.js), and the TrainingPipeline    *)
(* with its model store and A/B ledger (training/index.js).                *)
(*                                                                         *)
(* Fractions are held as integers in hundredths (0.3 is 30).  Time is in   *)
(* whole hours.  The sample-size thresholds and retention caps of the      *)
(* source (10000, 5000, 2000, 50, ...) are scaled down to small values so  *)
(* that the state space is finite; each scaled definition names the value  *)
(* the source uses, and keeps the source's comparison operator.            *)
(***************************************************************************)
EXTENDS Integers, Sequences, FiniteSets, TLC

----------------------------------------------------------------------------
(* Scaled sizes.  The source value is given with each.                     *)

\* metrics.length > 10000 (learning-engine.js:52)
EmailCap == 4
\* conversions.length > 5000 (learning-engine.js:76)
ConversionsCap == 5
\* pricing.length > 2000 (learning-engine.js:95)
PricingCap == 2
\* content.length > 5000 (learning-engine.js:115)
ContentCap == 3
\* emailPerf.length < 50 (learning-engine.js:128)
MinEmailsForWeights == 3
\* converted.length < 5 (learning-engine.js:134)
MinConvertedForWeights == 2
\* totalLeads < 10 (learning-engine.js:222)
MinLeads == 2
\* totalLeads > 50 (learning-engine.js:239)
MediumLeads == 3
\* totalLeads > 100 (learning-engine.js:239)
HighLeads == 4
\* emailPerf.length < 50 (training/index.js:63)
MinSubjectSamples == 2
\* pricing.length < 30 (training/index.js:95)
MinPricingSamples == 2
\* content.length < 20 (training/index.js:126)
MinContentSamples == 2
\* conversions.length < 50 (training/index.js:160)
MinLeadSamples == 3
\* subjects.length > 10 (learning-engine.js:176)
MinConvertedSubjects == 1
\* .slice(-50) (learning-engine.js:174)
SubjectWindow == 3
\* emailPerf.length < 100 (predictive/index.js:76)
MinSendTimeEmails == 2
\* emailPerf.length > 500 (predictive/index.js:119)
HighSendTimeEmails == 3
\* config.outreach.dailyLimit (30) and the leads runOutreach generates (50)
DailyLimit == 2
LeadsGenerated == 3

(* Bounds of the exploration.                                              *)
\* tracking calls explored beyond a category's cap
Extra == 2
\* tracking calls explored in one run, over all categories
MaxCalls == 6
\* hours explored
MaxNow == 27
\* A/B results recorded in one run
MaxABResults == 4
\* process deaths explored in one run
MaxCrashes == 1

(* Program constants.                                                      *)
\* stats.total >= 3 (learning-engine.js:149)
GroupFloor == 3
\* bestRate > 0.3 (learning-engine.js:159), in hundredths
RateThreshold == 30
\* Math.min(0.5, ...) (learning-engine.js:160), in hundredths
WeightCap == 50
\* this.learningRate = 0.1 (learning-engine.js:18), in hundredths
LearningRate == 10
\* this.trainingInterval = 24 * 60 * 60 * 1000 ms (training/index.js:18), in hours
TrainingInterval == 24
\* 30 * 24 * 60 * 60 * 1000 ms (predictive/index.js:45), in hours
InactiveLimit == 720
\* 60 * 24 * 60 * 60 * 1000 ms (predictive/index.js:58), in hours
PurchaseLimit == 1440
\* engagementMetrics.openRate < 20 (predictive/index.js:51)
LowOpenRate == 20
AvgOrderValue == 99               \* avgOrderValue = 99
Months == 12                      \* conversion.probability * 12
HighPriorityCLV == 50             \* clv > 50

Categories == {"email_performance", "conversions", "pricing", "content_performance"}

\* a subject that is not a string (undefined, null, a number): String methods
\* called on it raise a TypeError
NoString == <<"#nostring">>

Null == -1

Min(a, b) == IF a < b THEN a ELSE b
Max(a, b) == IF a > b THEN a ELSE b

VARIABLES
    files,          \* data/<category>.json: [st: "absent" | "valid" | "corrupt", data: the array]
    hist,           \* history: per category, the records appended so far, in call order
    weights,        \* LearningEngine.weights, in hundredths
    ret,            \* outcome of the last call: [op, outcome: "returned" | "threw", value]
    modelsFile,     \* models/trained_models.json: [st, data: name -> model record]
    abFile,         \* models/ab_tests.json: [st, data: test id -> test record]
    abLog,          \* history: the recordABResult calls made on an existing test
    lastTraining,   \* TrainingPipeline.lastTraining (Null, or the hour of Date.now())
    now,            \* Date.now(), in hours
    trainPc,        \* position of the running train() call
    trainModels,    \* results.models of the running train() call
    runStartLT,     \* history: lastTraining when the last train() run started
    doneAt,         \* history: hour at which train() last completed in this process
    durableDoneAt,  \* history: hour at which train() last completed in any process
    crash,          \* history: the append cut by the last crash: [cat, old, new], and
                    \* n, the number of crashes so far
    ai,             \* the AICore object: [provider, openai, ollama], the position of
                    \* its checkOllama call, and (history) the environment init saw
    inflight,       \* the trackEmail calls that are at their await: for each the
                    \* record it appended and (history) the array it had loaded
    outreach        \* the runOutreach call: its position, the leads left to mail,
                    \* its counter sent, and (history) the sends that succeeded
                    \* and the records appended

vars == <<files, hist, weights, ret, modelsFile, abFile, abLog, lastTraining, now,
          trainPc, trainModels, runStartLT, doneAt, durableDoneAt, crash, ai, inflight, outreach>>

\* process.env and the local Ollama server, as AICore.init finds them
NoEnv == [deepseek |-> "unset", openai |-> "unset", ollamaUp |-> FALSE]

\* new AICore()
\* no runOutreach call is running
NoOutreach ==
    [pc |-> "idle", qualified |-> 0, left |-> 0, sent |-> 0, delivered |-> 0, appended |-> 0]

NewAICore ==
    [provider |-> "null", openai |-> FALSE, ollama |-> FALSE, check |-> "idle", env |-> NoEnv]

----------------------------------------------------------------------------
(* Metric store (learning-engine.js, HELPERS)                              *)

AbsentFile == [st |-> "absent", data |-> <<>>]

\* loadMetrics without the try / catch: what is left of a cut write reaches the caller
loadMetricsNoCatch(name) ==
    IF files[name].st = "valid" THEN files[name].data
    ELSE IF files[name].st = "absent" THEN <<>>
    ELSE <<[timestamp |-> 0, outcome |-> "#partial", subject |-> NoString,
            sentAt |-> [hour |-> 0, day |-> 0], opened |-> FALSE, converted |-> FALSE]>>

\* loadMetrics(name): [] when the file does not exist or does not parse
loadMetrics(name) ==
    IF files[name].st = "valid" THEN files[name].data ELSE <<>>

\* saveMetrics(name, data): fs.writeFileSync of the whole array, run to completion
saveMetrics(name, data) ==
    [files EXCEPT ![name] = [st |-> "valid", data |-> data]]

\* Retain with one record too many spliced off
RetainOneLess(metrics, cap) ==
    IF Len(metrics) > cap
    THEN SubSeq(metrics, (Len(metrics) - cap) + 2, Len(metrics))
    ELSE metrics

\* Retain that truncates at the tail instead of the head
RetainHead(metrics, cap) ==
    IF Len(metrics) > cap THEN SubSeq(metrics, 1, cap) ELSE metrics

\* if (metrics.length > cap) metrics.splice(0, metrics.length - cap)
Retain(metrics, cap) ==
    IF Len(metrics) > cap
    THEN SubSeq(metrics, (Len(metrics) - cap) + 1, Len(metrics))
    ELSE metrics

CapOf(name) ==
    CASE name = "email_performance" -> EmailCap
      [] name = "conversions" -> ConversionsCap
      [] name = "pricing" -> PricingCap
      [] name = "content_performance" -> ContentCap

----------------------------------------------------------------------------
(* Weight update (learning-engine.js, updateWeights)                       *)

DefaultWeights ==
    [subjectLine |-> 30, sendTime |-> 20, offerPrice |-> 25, contentQuality |-> 25]

\* String.prototype.toLowerCase on the words the model uses
ToLowerCase(w) ==
    CASE w = "Quick" -> "quick"
      [] w = "Ideas" -> "ideas"
      [] OTHER -> w

\* e.subject.split(' ')[0].toLowerCase(); a subject is the tuple of its words
FirstWord(subject) == ToLowerCase(subject[1])

\* emailPerf.filter(e => e.converted).length
NumConverted(emailPerf) == Cardinality({i \in 1..Len(emailPerf) : emailPerf[i].converted})

\* the keys of `subjects` in the order Object.entries yields them: first seen first
RECURSIVE WordsInOrder(_, _)
WordsInOrder(emailPerf, seen) ==
    IF emailPerf = <<>> THEN seen
    ELSE LET w == FirstWord(Head(emailPerf).subject)
         IN WordsInOrder(Tail(emailPerf),
                         IF \E i \in 1..Len(seen) : seen[i] = w THEN seen ELSE Append(seen, w))

\* subjects[word] = {total, converted}
GroupStats(emailPerf, word) ==
    LET group == {i \in 1..Len(emailPerf) : FirstWord(emailPerf[i].subject) = word}
    IN [total |-> Cardinality(group),
        converted |-> Cardinality({i \in group : emailPerf[i].converted})]

\* the forEach over Object.entries(subjects): best is [word, num, den], the rate num/den
RECURSIVE ScanBest(_, _, _)
ScanBest(emailPerf, words, best) ==
    IF words = <<>> THEN best
    ELSE LET stats == GroupStats(emailPerf, Head(words))
             better == stats.total >= GroupFloor
                       /\ stats.converted * best.den > best.num * stats.total
         IN ScanBest(emailPerf, Tail(words),
                     IF better
                     THEN [word |-> Head(words), num |-> stats.converted, den |-> stats.total]
                     ELSE best)

BestSubject(emailPerf) ==
    ScanBest(emailPerf, WordsInOrder(emailPerf, <<>>), [word |-> "Quick", num |-> 0, den |-> 1])

\* what a bare return; gives the caller
Undefined == [type |-> "undefined"]

\* updateWeights without Math.min(0.5, ...)
updateWeightsUncapped(emailPerf, w) ==
    IF Len(emailPerf) < MinEmailsForWeights
    THEN [outcome |-> "returned", value |-> Undefined, weights |-> w]
    ELSE IF NumConverted(emailPerf) < MinConvertedForWeights
    THEN [outcome |-> "returned", value |-> Undefined, weights |-> w]
    ELSE IF \E i \in 1..Len(emailPerf) : emailPerf[i].subject = NoString
    THEN [outcome |-> "threw", value |-> "TypeError", weights |-> w]
    ELSE LET best == BestSubject(emailPerf)
             w2 == IF best.num * 100 > RateThreshold * best.den
                   THEN [w EXCEPT !.subjectLine = w.subjectLine + LearningRate]
                   ELSE w
         IN [outcome |-> "returned", value |-> w2, weights |-> w2]

\* updateWeights with >= for > at the rate threshold
updateWeightsInclusive(emailPerf, w) ==
    IF Len(emailPerf) < MinEmailsForWeights
    THEN [outcome |-> "returned", value |-> Undefined, weights |-> w]
    ELSE IF NumConverted(emailPerf) < MinConvertedForWeights
    THEN [outcome |-> "returned", value |-> Undefined, weights |-> w]
    ELSE IF \E i \in 1..Len(emailPerf) : emailPerf[i].subject = NoString
    THEN [outcome |-> "threw", value |-> "TypeError", weights |-> w]
    ELSE LET best == BestSubject(emailPerf)
             w2 == IF best.num * 100 >= RateThreshold * best.den
                   THEN [w EXCEPT !.subjectLine = Min(WeightCap, w.subjectLine + LearningRate)]
                   ELSE w
         IN [outcome |-> "returned", value |-> w2, weights |-> w2]

\* updateWeights() on the stored emails and the weights w:
\* [outcome, value, weights] where weights are the weights afterwards
updateWeights(emailPerf, w) ==
    IF Len(emailPerf) < MinEmailsForWeights
    THEN [outcome |-> "returned", value |-> Undefined, weights |-> w]
    ELSE IF NumConverted(emailPerf) < MinConvertedForWeights
    THEN [outcome |-> "returned", value |-> Undefined, weights |-> w]
    ELSE IF \E i \in 1..Len(emailPerf) : emailPerf[i].subject = NoString
    THEN [outcome |-> "threw", value |-> "TypeError", weights |-> w]
    ELSE LET best == BestSubject(emailPerf)
             w2 == IF best.num * 100 > RateThreshold * best.den
                   THEN [w EXCEPT !.subjectLine = Min(WeightCap, w.subjectLine + LearningRate)]
                   ELSE w
         IN [outcome |-> "returned", value |-> w2, weights |-> w2]

----------------------------------------------------------------------------
(* Tracking API (learning-engine.js, TRACKING)                             *)

Subjects == {<<"Quick", "question">>, NoString}
\* what new Date(email.sentAt) gives for the sentAt values passed: the hour of
\* the day (getHours) and the day of the week (getDay, 0 is Sunday)
Morning == [hour |-> 9, day |-> 1]
Afternoon == [hour |-> 14, day |-> 3]
SentAts == {Morning, Afternoon}
Outcomes == {"sale", "no_response"}

Calls == Len(hist["email_performance"]) + Len(hist["conversions"])
         + Len(hist["pricing"]) + Len(hist["content_performance"])

MayTrack(name) == Len(hist[name]) < CapOf(name) + Extra /\ Calls < MaxCalls

\* the clock reading stored in the record: later appends read later times
Stamp(name) == Len(hist[name]) + 1

\* the load, push, splice and save of a tracking call
Appended(name, rec) == Retain(Append(loadMetrics(name), rec), CapOf(name))

\* a completed call ends the record of the append that the last crash cut
CrashForgotten == [cat |-> "none", old |-> <<>>, new |-> <<>>, n |-> crash.n]

StoreUnchangedElsewhere ==
    /\ crash' = CrashForgotten
    /\ UNCHANGED <<modelsFile, abFile, abLog, lastTraining, now, trainPc, trainModels,
                   runStartLT, doneAt, durableDoneAt, ai, inflight, outreach>>

TrackEmail(subject, sentAt, opened, converted) ==
    LET rec == [timestamp |-> Stamp("email_performance"), subject |-> subject,
                sentAt |-> sentAt, opened |-> opened, converted |-> converted]
        metrics == Appended("email_performance", rec)
        uw == updateWeights(metrics, weights)
    IN /\ MayTrack("email_performance")
       /\ files' = saveMetrics("email_performance", metrics)
       /\ hist' = [hist EXCEPT !["email_performance"] = Append(@, rec)]
       /\ weights' = uw.weights
       /\ ret' = IF uw.outcome = "threw"
                 THEN [op |-> "trackEmail", outcome |-> "threw", value |-> uw.value]
                 ELSE [op |-> "trackEmail", outcome |-> "returned", value |-> "tracked"]
       /\ StoreUnchangedElsewhere

\* trackEmail up to its await: the load, push, splice and save, then the whole
\* of updateWeights(), which has no await of its own; the call then waits at
\* `await this.updateWeights()` while other calls may run
TrackEmailBegins(subject, sentAt, opened, converted) ==
    LET rec == [timestamp |-> Stamp("email_performance"), subject |-> subject,
                sentAt |-> sentAt, opened |-> opened, converted |-> converted]
        metrics == Appended("email_performance", rec)
        uw == updateWeights(metrics, weights)
    IN /\ MayTrack("email_performance")
       /\ files' = saveMetrics("email_performance", metrics)
       /\ hist' = [hist EXCEPT !["email_performance"] = Append(@, rec)]
       /\ weights' = uw.weights
       /\ inflight' = inflight \cup {[rec |-> rec, metrics |-> metrics,
                                      settled |-> uw.outcome]}
       /\ ret' = [op |-> "trackEmail", outcome |-> "awaiting", value |-> "promise"]
       /\ crash' = CrashForgotten
       /\ UNCHANGED <<modelsFile, abFile, abLog, lastTraining, now, trainPc, trainModels,
                      runStartLT, doneAt, durableDoneAt, ai, outreach>>

\* a resumption that writes the array the call holds once more
TrackEmailResumesSaving(call) ==
    /\ call \in inflight
    /\ inflight' = inflight \ {call}
    /\ files' = saveMetrics("email_performance", call.metrics)
    /\ ret' = [op |-> "trackEmail", outcome |-> "returned", value |-> "tracked"]
    /\ crash' = CrashForgotten
    /\ UNCHANGED <<hist, weights, modelsFile, abFile, abLog, lastTraining, now, trainPc,
                   trainModels, runStartLT, doneAt, durableDoneAt, ai, outreach>>

\* the resumption of a trackEmail call after its await: it returns
\* { tracked: true }, or rejects with what updateWeights() threw
TrackEmailResumes(call) ==
    /\ call \in inflight
    /\ inflight' = inflight \ {call}
    /\ ret' = IF call.settled = "threw"
              THEN [op |-> "trackEmail", outcome |-> "threw", value |-> "TypeError"]
              ELSE [op |-> "trackEmail", outcome |-> "returned", value |-> "tracked"]
    /\ crash' = CrashForgotten
    /\ UNCHANGED <<files, hist, weights, modelsFile, abFile, abLog, lastTraining, now,
                   trainPc, trainModels, runStartLT, doneAt, durableDoneAt, ai, outreach>>

\* a direct call of updateWeights()
UpdateWeights ==
    LET uw == updateWeights(loadMetrics("email_performance"), weights)
    IN /\ weights' = uw.weights
       /\ ret' = [op |-> "updateWeights", outcome |-> uw.outcome, value |-> uw.value,
                  before |-> weights]
       /\ UNCHANGED <<files, hist>>
       /\ StoreUnchangedElsewhere

\* trackConversion that ends with updateWeights(), as trackEmail does
TrackConversionUpdating(outcome) ==
    LET rec == [timestamp |-> Stamp("conversions"), outcome |-> outcome]
    IN /\ MayTrack("conversions")
       /\ files' = saveMetrics("conversions", Appended("conversions", rec))
       /\ hist' = [hist EXCEPT !["conversions"] = Append(@, rec)]
       /\ ret' = [op |-> "trackConversion", outcome |-> "returned", value |-> "tracked"]
       /\ weights' = updateWeights(loadMetrics("email_performance"), weights).weights
       /\ StoreUnchangedElsewhere

TrackConversion(outcome) ==
    LET rec == [timestamp |-> Stamp("conversions"), outcome |-> outcome]
    IN /\ MayTrack("conversions")
       /\ files' = saveMetrics("conversions", Appended("conversions", rec))
       /\ hist' = [hist EXCEPT !["conversions"] = Append(@, rec)]
       /\ ret' = [op |-> "trackConversion", outcome |-> "returned", value |-> "tracked"]
       /\ UNCHANGED weights
       /\ StoreUnchangedElsewhere

TrackPricing(outcome) ==
    LET rec == [timestamp |-> Stamp("pricing"), outcome |-> outcome]
    IN /\ MayTrack("pricing")
       /\ files' = saveMetrics("pricing", Appended("pricing", rec))
       /\ hist' = [hist EXCEPT !["pricing"] = Append(@, rec)]
       /\ ret' = [op |-> "trackPricing", outcome |-> "returned", value |-> "undefined"]
       /\ UNCHANGED weights
       /\ StoreUnchangedElsewhere

TrackContent(type) ==
    LET rec == [timestamp |-> Stamp("content_performance"), type |-> type]
    IN /\ MayTrack("content_performance")
       /\ files' = saveMetrics("content_performance", Appended("content_performance", rec))
       /\ hist' = [hist EXCEPT !["content_performance"] = Append(@, rec)]
       /\ ret' = [op |-> "trackContent", outcome |-> "returned", value |-> "undefined"]
       /\ UNCHANGED weights
       /\ StoreUnchangedElsewhere

----------------------------------------------------------------------------
(* Conversion prediction (learning-engine.js, predictConversion)           *)

\* leadData values: no argument at all, a lead without touchpoints (or with
\* touchpoints 0, which is falsy), and leads with touchpoints
NoLead == [touchpoints |-> -1]
Leads == {NoLead, [touchpoints |-> 0], [touchpoints |-> 2], [touchpoints |-> 40]}

\* aiAnalysis.score of this.ai.analyzeLead
Scores == {0, 50, 100}

\* Math.round of the fraction num/den (den > 0, num >= 0)
Round(num, den) == (2 * num + den) \div (2 * den)

\* the confidence with >= for >
ConfidenceInclusive(totalLeads) ==
    IF totalLeads >= HighLeads THEN "high"
    ELSE IF totalLeads >= MediumLeads THEN "medium" ELSE "low"

\* totalLeads > 100 ? 'high' : totalLeads > 50 ? 'medium' : 'low'
Confidence(totalLeads) ==
    IF totalLeads > HighLeads THEN "high"
    ELSE IF totalLeads > MediumLeads THEN "medium" ELSE "low"

\* the steps of predictConversion past the floor; a probability is a
\* fraction [num, den], the returned one is in hundredths
Predicted(conversions, leadData, openai, score) ==
    LET totalLeads == Len(conversions)
        sales == Cardinality({i \in 1..totalLeads : conversions[i].outcome = "sale"})
        baseRate == [num |-> sales, den |-> totalLeads]
        \* baseRate * (1 + leadData.touchpoints * 0.1)
        scaled == [num |-> sales * (10 + leadData.touchpoints), den |-> totalLeads * 10]
        \* Math.min(0.9, ...)
        adjusted == IF leadData.touchpoints # 0
                    THEN IF scaled.num * 10 > 9 * scaled.den
                         THEN [num |-> 9, den |-> 10] ELSE scaled
                    ELSE baseRate
        \* (probability + aiAnalysis.score / 100) / 2
        blended == IF openai
                   THEN [num |-> 100 * adjusted.num + score * adjusted.den,
                         den |-> 200 * adjusted.den]
                   ELSE adjusted
    IN [probability |-> Round(100 * blended.num, blended.den),
        confidence |-> Confidence(totalLeads),
        baseRate |-> baseRate,
        totalDataPoints |-> totalLeads]

\* predictConversion with the floor one record too low
predictConversionLowFloor(conversions, leadData, openai, score) ==
    IF Len(conversions) < MinLeads - 1
    THEN [outcome |-> "returned", value |-> [probability |-> 10, confidence |-> "low"]]
    ELSE IF leadData = NoLead
    THEN [outcome |-> "threw", value |-> "TypeError"]
    ELSE [outcome |-> "returned", value |-> Predicted(conversions, leadData, openai, score)]

\* predictConversion(leadData) on the stored conversions; openai says whether
\* this.ai.openai is set, score is what analyzeLead answers
predictConversion(conversions, leadData, openai, score) ==
    IF Len(conversions) < MinLeads
    THEN [outcome |-> "returned", value |-> [probability |-> 10, confidence |-> "low"]]
    ELSE IF leadData = NoLead
    THEN [outcome |-> "threw", value |-> "TypeError"]
    ELSE [outcome |-> "returned", value |-> Predicted(conversions, leadData, openai, score)]

PredictConversion(leadData, openai, score) ==
    LET r == predictConversion(loadMetrics("conversions"), leadData, openai, score)
    IN /\ ret' = [op |-> "predictConversion", outcome |-> r.outcome, value |-> r.value]
       /\ UNCHANGED <<files, hist, weights, modelsFile, abFile, abLog, lastTraining, now,
                      trainPc, trainModels, runStartLT, doneAt, durableDoneAt, crash, ai, inflight, outreach>>

----------------------------------------------------------------------------
(* Calls that await a collaborator (learning-engine.js, getOptimizedSubject *)
(* and predictConversion; ai-core.js, analyzeLead).  A call that reaches   *)
(* its await is pending: the collaborator settles the awaited promise with *)
(* a reply or a rejection, or never does, and the call resumes once it is  *)
(* settled.  No await is under a timer.                                    *)

\* an operation that reads and answers only
AnswersOnly ==
    UNCHANGED <<files, hist, weights, modelsFile, abFile, abLog, lastTraining, now,
                trainPc, trainModels, runStartLT, doneAt, durableDoneAt, crash, ai, inflight, outreach>>

\* one call is followed at a time
Idle == ret.outcome # "pending"

NoReply == [kind |-> "none"]

\* emailPerf.filter(e => e.converted).map(e => e.subject).slice(-50)
ConvertedSubjects(emailPerf) ==
    LET converted == SelectSeq(emailPerf, LAMBDA e : e.converted)
        from == Max(1, Len(converted) - SubjectWindow + 1)
    IN [i \in 1..(Len(converted) - from + 1) |-> converted[from + i - 1].subject]

\* getBestSubject: templates[businessType] || templates['general']
Templates(businessType) ==
    CASE businessType = "seo-audit" ->
            <<"Quick SEO question", "SEO improvement idea", "Saw your site...">>
      [] businessType = "leads" ->
            <<"Lead generation help?", "Fresh leads for you", "Helping with leads">>
      [] OTHER -> <<"Quick question", "Thought you should know", "Ideas for you">>

BusinessTypes == {"seo-audit", "general", "webdesign"}

\* what the text-generation call can settle with: a JSON array of subject
\* lines, JSON of another shape, text that is not JSON, or a rejection
TextReplies ==
    {[kind |-> "subjects"], [kind |-> "other_json"], [kind |-> "unparsable"],
     [kind |-> "rejected"]}

\* the subject lines of a well-formed reply
GeneratedSubjects == <<"Quick idea", "A thought for you">>

\* getOptimizedSubject with >= for > at the floor of converted subjects
GetOptimizedSubjectInclusive(businessType, openai) ==
    LET subjects == ConvertedSubjects(loadMetrics("email_performance"))
        input == [businessType |-> businessType, openai |-> openai]
    IN /\ Idle
       /\ IF openai /\ Len(subjects) >= MinConvertedSubjects
          THEN ret' = [op |-> "getOptimizedSubject", outcome |-> "pending", input |-> input,
                       subjects |-> Len(subjects), asked |-> TRUE, reply |-> NoReply,
                       value |-> "undefined"]
          ELSE \E i \in 1..Len(Templates(businessType)) :
                  ret' = [op |-> "getOptimizedSubject", outcome |-> "returned", input |-> input,
                          subjects |-> Len(subjects), asked |-> FALSE, reply |-> NoReply,
                          value |-> Templates(businessType)[i]]
       /\ AnswersOnly

\* getOptimizedSubject(businessType, leadData) up to its await, or to its end
\* when it does not ask the collaborator
GetOptimizedSubject(businessType, openai) ==
    LET subjects == ConvertedSubjects(loadMetrics("email_performance"))
        input == [businessType |-> businessType, openai |-> openai]
    IN /\ Idle
       /\ IF openai /\ Len(subjects) > MinConvertedSubjects
          THEN ret' = [op |-> "getOptimizedSubject", outcome |-> "pending", input |-> input,
                       subjects |-> Len(subjects), asked |-> TRUE, reply |-> NoReply,
                       value |-> "undefined"]
          ELSE \E i \in 1..Len(Templates(businessType)) :
                  ret' = [op |-> "getOptimizedSubject", outcome |-> "returned", input |-> input,
                          subjects |-> Len(subjects), asked |-> FALSE, reply |-> NoReply,
                          value |-> Templates(businessType)[i]]
       /\ AnswersOnly

\* the promise of chat.completions.create settles
TextGenerationSettles(reply) ==
    /\ ret.op = "getOptimizedSubject"
    /\ ret.outcome = "pending"
    /\ ret.reply = NoReply
    /\ ret' = [ret EXCEPT !.reply = reply]
    /\ AnswersOnly

\* getOptimizedSubject after its await, without the try block
GetOptimizedSubjectResumesNoCatch ==
    /\ ret.op = "getOptimizedSubject"
    /\ ret.outcome = "pending"
    /\ ret.reply # NoReply
    /\ CASE ret.reply.kind = "subjects" ->
               \E i \in 1..Len(GeneratedSubjects) :
                  ret' = [ret EXCEPT !.outcome = "returned", !.value = GeneratedSubjects[i]]
         [] ret.reply.kind = "other_json" ->
               ret' = [ret EXCEPT !.outcome = "returned", !.value = "undefined"]
         [] OTHER ->
               ret' = [ret EXCEPT !.outcome = "threw", !.value = "Error"]
    /\ AnswersOnly

\* getOptimizedSubject after its await: JSON.parse and a random member of the
\* parsed value, or the catch block
GetOptimizedSubjectResumes ==
    /\ ret.op = "getOptimizedSubject"
    /\ ret.outcome = "pending"
    /\ ret.reply # NoReply
    /\ CASE ret.reply.kind = "subjects" ->
               \E i \in 1..Len(GeneratedSubjects) :
                  ret' = [ret EXCEPT !.outcome = "returned", !.value = GeneratedSubjects[i]]
         [] ret.reply.kind = "other_json" ->
               ret' = [ret EXCEPT !.outcome = "returned", !.value = "undefined"]
         [] OTHER ->
               \E i \in 1..Len(Templates(ret.input.businessType)) :
                  ret' = [ret EXCEPT !.outcome = "returned",
                                     !.value = Templates(ret.input.businessType)[i]]
    /\ AnswersOnly

\* what the completion awaited by analyzeLead can settle with: a JSON object
\* with a score, text that is not JSON, or a rejection
ScoringReplies ==
    {[kind |-> "score", score |-> sc] : sc \in Scores}
        \cup {[kind |-> "unparsable", score |-> 0], [kind |-> "rejected", score |-> 0]}

\* analyzeLead's result: the parsed reply, or { score: 50, confidence: 'low' }
\* from its catch block
analyzeLead(reply) ==
    IF reply.kind = "score" THEN [score |-> reply.score] ELSE [score |-> 50]

\* predictConversion(leadData) up to the await of this.ai.analyzeLead, or to
\* its end when this.ai.openai is not set
PredictConversionCall(leadData, openai) ==
    LET conversions == loadMetrics("conversions")
        input == [leadData |-> leadData, openai |-> openai]
        r == predictConversion(conversions, leadData, FALSE, 0)
    IN /\ Idle
       /\ IF openai /\ Len(conversions) >= MinLeads /\ leadData # NoLead
          THEN ret' = [op |-> "predictConversion", outcome |-> "pending", input |-> input,
                       asked |-> TRUE, reply |-> NoReply, value |-> "undefined"]
          ELSE ret' = [op |-> "predictConversion", outcome |-> r.outcome, input |-> input,
                       asked |-> FALSE, reply |-> NoReply, value |-> r.value]
       /\ AnswersOnly

\* the promise of chat.completions.create inside analyzeLead settles
LeadScoringSettles(reply) ==
    /\ ret.op = "predictConversion"
    /\ ret.outcome = "pending"
    /\ ret.reply = NoReply
    /\ ret' = [ret EXCEPT !.reply = reply]
    /\ AnswersOnly

\* analyzeLead returns and predictConversion blends its score
PredictConversionResumes ==
    /\ ret.op = "predictConversion"
    /\ ret.outcome = "pending"
    /\ ret.reply # NoReply
    /\ ret' = [ret EXCEPT !.outcome = "returned",
                          !.value = Predicted(loadMetrics("conversions"), ret.input.leadData,
                                              TRUE, analyzeLead(ret.reply).score)]
    /\ AnswersOnly

\* getInsights(): rates and revenue from the four collections, this.weights
\* and the recommendations; the answer keeps the sizes and the weights
GetInsights ==
    /\ ret' = [op |-> "getInsights", outcome |-> "returned", value |-> "insights",
               emails |-> Len(loadMetrics("email_performance")),
               leads |-> Len(loadMetrics("conversions")),
               weights |-> weights]
    /\ AnswersOnly

----------------------------------------------------------------------------
(* AI core (ml/ai-core.js): choice of the provider, generateOutreach_email  *)

AIUnchangedElsewhere ==
    UNCHANGED <<files, hist, weights, modelsFile, abFile, abLog, lastTraining, now,
                trainPc, trainModels, runStartLT, doneAt, durableDoneAt, crash, inflight, outreach>>

\* an API key in process.env: not set, set, or set to something new OpenAI() rejects
KeyStates == {"unset", "set", "invalid"}

Envs == [deepseek : KeyStates, openai : KeyStates, ollamaUp : BOOLEAN]

\* init(): the DeepSeek key, then the OpenAI key, then checkOllama(), which
\* is started and not awaited
init(a, env) ==
    IF env.deepseek = "set"
    THEN [a EXCEPT !.openai = TRUE, !.provider = "deepseek", !.env = env]
    ELSE IF env.openai = "set"
    THEN [a EXCEPT !.openai = TRUE, !.provider = "openai", !.env = env]
    ELSE [a EXCEPT !.check = "pending", !.env = env]

\* this.ai.init(), called once on a new AICore
AIInit(env) ==
    /\ ai = NewAICore
    /\ ai' = init(ai, env)
    /\ UNCHANGED ret
    /\ AIUnchangedElsewhere

\* checkOllama() after its fetch of /api/tags has settled
CheckOllamaSettles ==
    /\ ai.check = "pending"
    /\ ai' = IF ai.env.ollamaUp
             THEN [ai EXCEPT !.ollama = TRUE, !.provider = "ollama", !.check = "done"]
             ELSE [ai EXCEPT !.provider = "template", !.check = "done"]
    /\ UNCHANGED ret
    /\ AIUnchangedElsewhere

\* what a caller gets from generateOutreach_email
TemplateEmails ==
    {[type |-> "email", from |-> "template", subject |-> i, body |-> j] : i \in 1..3, j \in 1..2}
GeneratedEmail == [type |-> "email", from |-> "provider", subject |-> 0, body |-> 0]
OtherObject == [type |-> "object", from |-> "provider", subject |-> 0, body |-> 0]
ResponseText == [type |-> "string", from |-> "provider", subject |-> 0, body |-> 0]
NullValue == [type |-> "null", from |-> "none", subject |-> 0, body |-> 0]

\* ways the request to the provider ends: for the chat API an answer that is
\* {subject, body}, other JSON, text that does not parse, a rejection; for
\* Ollama an ok response, a response that is not ok, a body that does not
\* parse, a failed fetch
ChatReplies == {[kind |-> "email"], [kind |-> "other_json"], [kind |-> "unparsable"],
                [kind |-> "rejected"]}
OllamaReplies == {[kind |-> "ok"], [kind |-> "not_ok"], [kind |-> "unparsable"],
                  [kind |-> "rejected"]}
FailedReplies == {[kind |-> "not_ok"], [kind |-> "unparsable"], [kind |-> "rejected"]}

\* generateOutreach_email(lead, businessType) up to its await, or to its end
\* when it answers from the templates
GenerateOutreachEmail ==
    /\ Idle
    /\ IF ai.provider = "template" \/ (ai.provider # "ollama" /\ ~ai.openai)
       THEN \E t \in TemplateEmails :
               ret' = [op |-> "generateOutreach_email", outcome |-> "returned",
                       via |-> "template", reply |-> NoReply, value |-> t]
       ELSE ret' = [op |-> "generateOutreach_email", outcome |-> "pending",
                    via |-> IF ai.provider = "ollama" THEN "ollama" ELSE "chat",
                    reply |-> NoReply, value |-> NullValue]
    /\ UNCHANGED ai
    /\ AIUnchangedElsewhere

\* the request to the selected provider settles
ProviderSettles(reply) ==
    /\ ret.op = "generateOutreach_email"
    /\ ret.outcome = "pending"
    /\ ret.reply = NoReply
    /\ reply \in (IF ret.via = "ollama" THEN OllamaReplies ELSE ChatReplies)
    /\ ret' = [ret EXCEPT !.reply = reply]
    /\ UNCHANGED ai
    /\ AIUnchangedElsewhere

\* generateOutreach_email after its await: through ollamaGenerate it returns
\* result.response or null; on the chat API it returns the parsed answer, or
\* the template from its catch block
GenerateOutreachEmailResumes ==
    /\ ret.op = "generateOutreach_email"
    /\ ret.outcome = "pending"
    /\ ret.reply # NoReply
    /\ IF ret.via = "ollama"
       THEN ret' = [ret EXCEPT !.outcome = "returned",
                               !.value = IF ret.reply.kind = "ok" THEN ResponseText
                                         ELSE NullValue]
       ELSE CASE ret.reply.kind = "email" ->
                    ret' = [ret EXCEPT !.outcome = "returned", !.value = GeneratedEmail]
              [] ret.reply.kind = "other_json" ->
                    ret' = [ret EXCEPT !.outcome = "returned", !.value = OtherObject]
              [] OTHER ->
                    \E t \in TemplateEmails :
                       ret' = [ret EXCEPT !.outcome = "returned", !.value = t]
    /\ UNCHANGED ai
    /\ AIUnchangedElsewhere

----------------------------------------------------------------------------
(* Outreach (AIBusiness.runOutreach, sendOutreach)                         *)

OutreachUnchangedElsewhere ==
    UNCHANGED <<modelsFile, abFile, abLog, lastTraining, now, trainPc, trainModels,
                runStartLT, doneAt, durableDoneAt, crash, ai, inflight>>

\* the AICore answers without a provider: analyzeLead gives score 50 and
\* generateOutreach_email a template
AnswersFromTemplates(a) == a.provider = "template" \/ (a.provider # "ollama" /\ ~a.openai)

\* how many of the generated leads can have an analyzeLead score above 30:
\* all of them when the score is the default 50, any number when a provider
\* scores them
QualifiedCounts(a) ==
    IF AnswersFromTemplates(a) THEN {LeadsGenerated} ELSE 0..LeadsGenerated

\* what generateOutreach_email can return to sendOutreach
generateOutreachEmailResults(a) ==
    IF AnswersFromTemplates(a) THEN TemplateEmails
    ELSE IF a.provider = "ollama" THEN {ResponseText, NullValue}
    ELSE {GeneratedEmail, OtherObject} \cup TemplateEmails

\* ways `await resend.emails.send(...)` ends: the API accepted the email; the
\* API refused it, which the client reports by resolving with { data: null,
\* error }; the constructor or the call threw
SendReplies == {"delivered", "refused", "rejected"}

\* runOutreach up to the first sendOutreach: the send time, generateLeads(50),
\* the scoring loop, scoredLeads.slice(0, dailyLimit)
RunOutreach(q) ==
    /\ outreach.pc = "idle"
    /\ Calls + DailyLimit <= MaxCalls
    /\ q \in QualifiedCounts(ai)
    /\ outreach' = [pc |-> IF Min(q, DailyLimit) > 0 THEN "compose" ELSE "return",
                    qualified |-> q, left |-> Min(q, DailyLimit),
                    sent |-> 0, delivered |-> 0, appended |-> 0]
    /\ ret' = [op |-> "runOutreach", outcome |-> "pending", value |-> "undefined"]
    /\ UNCHANGED <<files, hist, weights>>
    /\ OutreachUnchangedElsewhere

\* the loop of runOutreach after a sendOutreach and the delay
NextLead(o) ==
    [o EXCEPT !.left = @ - 1, !.pc = IF o.left - 1 > 0 THEN "compose" ELSE "return"]

\* sendOutreach(lead) up to the send: the subject, the email content, the
\* arguments of resend.emails.send. emailContent.subject throws on null and
\* emailContent.body.replace on anything without a body; the catch block
\* returns { success: false }
SendOutreachComposes(content) ==
    /\ outreach.pc = "compose"
    /\ content \in generateOutreachEmailResults(ai)
    /\ IF content.type = "email"
       THEN /\ outreach' = [outreach EXCEPT !.pc = "sending"]
            /\ ret' = [op |-> "sendOutreach", outcome |-> "pending", value |-> "undefined"]
       ELSE /\ outreach' = NextLead(outreach)
            /\ ret' = [op |-> "sendOutreach", outcome |-> "returned",
                       value |-> "success: false"]
    /\ UNCHANGED <<files, hist, weights>>
    /\ OutreachUnchangedElsewhere

\* the send settles and sendOutreach runs to its end: it does not read what
\* the send resolved with, calls trackEmail and returns { success: true };
\* a rejection goes to the catch block
SendSettles(reply) ==
    LET rec == [timestamp |-> Stamp("email_performance"), subject |-> <<"Quick", "question">>,
                sentAt |-> Morning, opened |-> FALSE, converted |-> FALSE]
        metrics == Appended("email_performance", rec)
        uw == updateWeights(metrics, weights)
        ok == uw.outcome # "threw"
    IN /\ outreach.pc = "sending"
       /\ reply \in SendReplies
       /\ IF reply = "rejected"
          THEN /\ outreach' = NextLead(outreach)
               /\ ret' = [op |-> "sendOutreach", outcome |-> "returned",
                          value |-> "success: false"]
               /\ UNCHANGED <<files, hist, weights>>
          ELSE /\ files' = saveMetrics("email_performance", metrics)
               /\ hist' = [hist EXCEPT !["email_performance"] = Append(@, rec)]
               /\ weights' = uw.weights
               /\ outreach' = NextLead([outreach EXCEPT
                                 !.appended = @ + 1,
                                 !.delivered = @ + (IF reply = "delivered" THEN 1 ELSE 0),
                                 !.sent = @ + (IF ok THEN 1 ELSE 0)])
               /\ ret' = [op |-> "sendOutreach", outcome |-> "returned",
                          value |-> IF ok THEN "success: true" ELSE "success: false"]
       /\ OutreachUnchangedElsewhere

\* runOutreach returns { sent, leadsGenerated, qualified }
RunOutreachReturns ==
    /\ outreach.pc = "return"
    /\ outreach' = [outreach EXCEPT !.pc = "idle"]
    /\ ret' = [op |-> "runOutreach", outcome |-> "returned", value |-> "sent"]
    /\ UNCHANGED <<files, hist, weights>>
    /\ OutreachUnchangedElsewhere

----------------------------------------------------------------------------
(* Predictive engine (predictive/index.js)                                 *)

\* a field of the argument that is missing (undefined), and one that is set
Unset == [set |-> FALSE, v |-> 0]
Set(v) == [set |-> TRUE, v |-> v]

\* hours since lastActive / lastPurchase, and the open rates, that are tried
ActiveAges == {InactiveLimit, InactiveLimit + 1}
PurchaseAges == {PurchaseLimit, PurchaseLimit + 1}
OpenRates == {LowOpenRate - 1, LowOpenRate}

\* the engagementMetrics a caller can pass at the hour t
EngagementMetrics(t) ==
    [lastActive : {Unset} \cup {Set(t - a) : a \in ActiveAges},
     openRate : {Unset} \cup {Set(r) : r \in OpenRates},
     lastPurchase : {Unset} \cup {Set(t - a) : a \in PurchaseAges}]

\* !engagementMetrics.lastActive || Date.now() - new Date(lastActive).getTime() > 30 days
Inactive(m, t) == ~m.lastActive.set \/ t - m.lastActive.v > InactiveLimit
\* engagementMetrics.openRate < 20 (false for undefined)
LowEngagement(m) == m.openRate.set /\ m.openRate.v < LowOpenRate
\* !engagementMetrics.lastPurchase || Date.now() - new Date(lastPurchase).getTime() > 60 days
NoPurchase(m, t) == ~m.lastPurchase.set \/ t - m.lastPurchase.v > PurchaseLimit

\* the level with >= for >
ChurnLevelInclusive(riskScore) ==
    IF riskScore >= 60 THEN "high" ELSE IF riskScore >= 30 THEN "medium" ELSE "low"

\* riskScore > 60 ? 'high' : riskScore > 30 ? 'medium' : 'low'
ChurnLevel(riskScore) ==
    IF riskScore > 60 THEN "high" ELSE IF riskScore > 30 THEN "medium" ELSE "low"

\* riskScore > 60 ? 'immediate_outreach' : riskScore > 30 ? 'send_reengagement' : 'continue_normal'
ChurnAction(riskScore) ==
    IF riskScore > 60 THEN "immediate_outreach"
    ELSE IF riskScore > 30 THEN "send_reengagement" ELSE "continue_normal"

\* predictChurn(customerId, engagementMetrics) called at the hour t
predictChurn(m, t) ==
    LET s1 == IF Inactive(m, t) THEN 30 ELSE 0
        f1 == IF Inactive(m, t) THEN <<"No activity in 30 days">> ELSE <<>>
        s2 == IF LowEngagement(m) THEN s1 + 20 ELSE s1
        f2 == IF LowEngagement(m) THEN Append(f1, "Low email engagement") ELSE f1
        riskScore == IF NoPurchase(m, t) THEN s2 + 40 ELSE s2
        factors == IF NoPurchase(m, t) THEN Append(f2, "No recent purchases") ELSE f2
    IN [riskScore |-> Min(100, riskScore),
        level |-> ChurnLevel(riskScore),
        factors |-> factors,
        recommendedAction |-> ChurnAction(riskScore)]

PredictChurn(m) ==
    /\ ret' = [op |-> "predictChurn", outcome |-> "returned", input |-> m, at |-> now,
               value |-> predictChurn(m, now)]
    /\ AnswersOnly

\* `${bestHour}:00`
TimeText(hour) == <<hour, ":00">>

\* const days = [...]
Days == <<"Sunday", "Monday", "Tuesday", "Wednesday", "Thursday", "Friday", "Saturday">>

\* byHour[hour] / byDay[day] after the forEach: the opened emails of that key
Opens(emailPerf, field, key) ==
    Cardinality({i \in 1..Len(emailPerf) : emailPerf[i].opened /\ emailPerf[i].sentAt[field] = key})

RECURSIVE ScanEntries(_, _, _, _, _, _)
\* Object.entries(byHour).forEach(...): the keys are integer-like, so they are
\* visited in ascending numeric order; a key takes over when count > maxOpens
ScanEntries(emailPerf, field, key, last, best, maxOpens) ==
    IF key > last THEN best
    ELSE LET count == Opens(emailPerf, field, key)
         IN IF count > maxOpens
            THEN ScanEntries(emailPerf, field, key + 1, last, key, count)
            ELSE ScanEntries(emailPerf, field, key + 1, last, best, maxOpens)

RECURSIVE ScanEntriesInclusive(_, _, _, _, _, _)
\* the scan with count >= maxOpens: of the keys that tie, the last one visited wins
ScanEntriesInclusive(emailPerf, field, key, last, best, maxOpens) ==
    IF key > last THEN best
    ELSE LET count == Opens(emailPerf, field, key)
         IN IF count >= maxOpens /\ count > 0
            THEN ScanEntriesInclusive(emailPerf, field, key + 1, last, key, count)
            ELSE ScanEntriesInclusive(emailPerf, field, key + 1, last, best, maxOpens)

\* predictBestSendTime in which a later key takes over on a tie
predictBestSendTimeLastWins(emailPerf) ==
    IF Len(emailPerf) < MinSendTimeEmails
    THEN [bestTime |-> TimeText(10), day |-> "Tuesday", confidence |-> "low"]
    ELSE LET bestHour == ScanEntriesInclusive(emailPerf, "hour", 0, 23, 10, 0)
             bestDay == ScanEntriesInclusive(emailPerf, "day", 0, 6, 2, 0)
         IN [bestTime |-> TimeText(bestHour),
             day |-> Days[bestDay + 1],
             confidence |-> IF Len(emailPerf) > HighSendTimeEmails THEN "high" ELSE "medium"]

\* predictBestSendTime with >= for > in the confidence
predictBestSendTimeHighInclusive(emailPerf) ==
    IF Len(emailPerf) < MinSendTimeEmails
    THEN [bestTime |-> TimeText(10), day |-> "Tuesday", confidence |-> "low"]
    ELSE LET bestHour == ScanEntries(emailPerf, "hour", 0, 23, 10, 0)
             bestDay == ScanEntries(emailPerf, "day", 0, 6, 2, 0)
         IN [bestTime |-> TimeText(bestHour),
             day |-> Days[bestDay + 1],
             confidence |-> IF Len(emailPerf) >= HighSendTimeEmails THEN "high" ELSE "medium"]

\* predictBestSendTime with the floor one record too low
predictBestSendTimeLowFloor(emailPerf) ==
    IF Len(emailPerf) < MinSendTimeEmails - 1
    THEN [bestTime |-> TimeText(10), day |-> "Tuesday", confidence |-> "low"]
    ELSE LET bestHour == ScanEntries(emailPerf, "hour", 0, 23, 10, 0)
             bestDay == ScanEntries(emailPerf, "day", 0, 6, 2, 0)
         IN [bestTime |-> TimeText(bestHour),
             day |-> Days[bestDay + 1],
             confidence |-> IF Len(emailPerf) > HighSendTimeEmails THEN "high" ELSE "medium"]

\* predictBestSendTime() on the stored emails
predictBestSendTime(emailPerf) ==
    IF Len(emailPerf) < MinSendTimeEmails
    THEN [bestTime |-> TimeText(10), day |-> "Tuesday", confidence |-> "low"]
    ELSE LET bestHour == ScanEntries(emailPerf, "hour", 0, 23, 10, 0)
             bestDay == ScanEntries(emailPerf, "day", 0, 6, 2, 0)
         IN [bestTime |-> TimeText(bestHour),
             day |-> Days[bestDay + 1],
             confidence |-> IF Len(emailPerf) > HighSendTimeEmails THEN "high" ELSE "medium"]

PredictBestSendTime ==
    /\ ret' = [op |-> "predictBestSendTime", outcome |-> "returned",
               value |-> predictBestSendTime(loadMetrics("email_performance"))]
    /\ AnswersOnly

\* the actions array of recommendNextAction, expectedConversion in hundredths
Actions ==
    <<[type |-> "email", label |-> "Follow up", expectedConversion |-> 15],
      [type |-> "call", label |-> "Personal call", expectedConversion |-> 25],
      [type |-> "discount", label |-> "Special offer", expectedConversion |-> 35],
      [type |-> "wait", label |-> "Not ready", expectedConversion |-> 5]>>

\* the histories a caller can pass
Histories ==
    [emailsSent : {Unset} \cup {Set(n) : n \in {0, 2, 3, 4}},
     lastAction : {"email", "discount"},
     lastResponse : {"none", "replied"}]

\* the email penalty with >= for >
EmailPenalisedInclusive(history, action) ==
    history.emailsSent.set /\ history.emailsSent.v >= 3 /\ action.type = "email"

\* history.emailsSent > 3 && action.type === 'email'
EmailPenalised(history, action) ==
    history.emailsSent.set /\ history.emailsSent.v > 3 /\ action.type = "email"

\* history.lastAction === 'discount' && action.type === 'discount'
DiscountPenalised(history, action) ==
    history.lastAction = "discount" /\ action.type = "discount"

\* the score of one action, in hundredths: expectedConversion * 100, * 0.5,
\* * 0.3, then Math.round(score * 100) / 100
Score(history, action) ==
    LET s0 == [num |-> action.expectedConversion * 100, den |-> 1]
        s1 == IF EmailPenalised(history, action)
              THEN [num |-> s0.num * 5, den |-> s0.den * 10] ELSE s0
        s2 == IF DiscountPenalised(history, action)
              THEN [num |-> s1.num * 3, den |-> s1.den * 10] ELSE s1
    IN Round(s2.num, s2.den)

RECURSIVE InsertByScore(_, _)
\* the place of e in a list sorted by (a, b) => b.score - a.score: after every
\* entry that does not score less (the sort is stable)
InsertByScore(sorted, e) ==
    IF sorted = <<>> THEN <<e>>
    ELSE IF Head(sorted).score >= e.score
         THEN <<Head(sorted)>> \o InsertByScore(Tail(sorted), e)
         ELSE <<e>> \o sorted

RECURSIVE SortByScore(_)
\* scoredActions.sort((a, b) => b.score - a.score)
SortByScore(list) ==
    IF list = <<>> THEN <<>>
    ELSE InsertByScore(SortByScore(SubSeq(list, 1, Len(list) - 1)), list[Len(list)])

\* generateReasoning(history)
generateReasoning(history) ==
    IF history.emailsSent.set /\ history.emailsSent.v = 0
    THEN "Start with initial outreach email"
    ELSE IF history.emailsSent.set /\ history.emailsSent.v < 3
    THEN "Continue nurturing with follow-ups"
    ELSE IF history.lastAction = "email" /\ history.lastResponse = "none"
    THEN "Try a different approach - call or offer"
    ELSE "Standard nurturing sequence"

\* recommendNextAction(leadId, history)
recommendNextAction(history) ==
    LET scoredActions ==
            [i \in 1..Len(Actions) |->
                [type |-> Actions[i].type, label |-> Actions[i].label,
                 expectedConversion |-> Actions[i].expectedConversion,
                 score |-> Score(history, Actions[i])]]
        sorted == SortByScore(scoredActions)
    IN [recommended |-> sorted[1],
        alternatives |-> Tail(sorted),
        reasoning |-> generateReasoning(history)]

RecommendNextAction(history) ==
    /\ ret' = [op |-> "recommendNextAction", outcome |-> "returned", input |-> history,
               value |-> recommendNextAction(history)]
    /\ AnswersOnly

\* the metrics a caller can pass to detectAnomalies
AnomalyMetrics ==
    [revenueChange : {Unset} \cup {Set(x) : x \in {-51, -50}},
     bounceRate : {Unset} \cup {Set(x) : x \in {10, 11}},
     trafficChange : {Unset} \cup {Set(x) : x \in {200, 201}}]

\* the revenue check with <= for <
RevenueDropInclusive(metrics) == metrics.revenueChange.set /\ metrics.revenueChange.v <= -50

\* metrics.revenueChange < -50
RevenueDrop(metrics) == metrics.revenueChange.set /\ metrics.revenueChange.v < -50
\* metrics.bounceRate > 10
HighBounce(metrics) == metrics.bounceRate.set /\ metrics.bounceRate.v > 10
\* metrics.trafficChange > 200
TrafficSpike(metrics) == metrics.trafficChange.set /\ metrics.trafficChange.v > 200

RevenueDropAnomaly ==
    [type |-> "revenue_drop", severity |-> "high",
     message |-> "Revenue dropped more than 50% vs average",
     recommendation |-> "Review recent changes to pricing or marketing"]
HighBounceAnomaly ==
    [type |-> "high_bounce", severity |-> "medium",
     message |-> "Email bounce rate is high",
     recommendation |-> "Review email list quality"]
TrafficSpikeAnomaly ==
    [type |-> "traffic_spike", severity |-> "low",
     message |-> "Unusual traffic increase detected",
     recommendation |-> "Investigate source - could be bot traffic"]

\* detectAnomalies(metrics)
detectAnomalies(metrics) ==
    LET a1 == IF RevenueDrop(metrics) THEN <<RevenueDropAnomaly>> ELSE <<>>
        a2 == IF HighBounce(metrics) THEN Append(a1, HighBounceAnomaly) ELSE a1
    IN IF TrafficSpike(metrics) THEN Append(a2, TrafficSpikeAnomaly) ELSE a2

DetectAnomalies(metrics) ==
    /\ ret' = [op |-> "detectAnomalies", outcome |-> "returned", input |-> metrics,
               value |-> detectAnomalies(metrics)]
    /\ AnswersOnly

----------------------------------------------------------------------------
(* Customer lifetime value (predictive/index.js, predictCLV)               *)

\* predictCLV that counts one purchase period instead of twelve
predictCLVOnePeriod(r) ==
    IF r.outcome = "threw" THEN r
    ELSE LET p == r.value.probability
             clv == p * AvgOrderValue * p
         IN [outcome |-> "returned",
             value |-> [predictedCLV |-> Round(clv, 100),
                        confidence |-> r.value.confidence,
                        factors |-> [conversionProbability |-> p,
                                     avgOrderValue |-> AvgOrderValue,
                                     predictedPurchases |-> p],
                        recommendation |-> IF clv > HighPriorityCLV * 10000
                                           THEN "high_priority" ELSE "standard"]]

\* predictCLV on the answer r of predictConversion. The probability and the
\* purchases are in hundredths, clv in ten-thousandths, predictedCLV in
\* hundredths again (Math.round(clv * 100) / 100).
predictCLV(r) ==
    IF r.outcome = "threw" THEN r
    ELSE LET p == r.value.probability
             predictedPurchases == p * Months
             clv == p * AvgOrderValue * predictedPurchases
         IN [outcome |-> "returned",
             value |-> [predictedCLV |-> Round(clv, 100),
                        confidence |-> r.value.confidence,
                        factors |-> [conversionProbability |-> p,
                                     avgOrderValue |-> AvgOrderValue,
                                     predictedPurchases |-> predictedPurchases],
                        recommendation |-> IF clv > HighPriorityCLV * 10000
                                           THEN "high_priority" ELSE "standard"]]

\* a call of predictCLV(leadData); conversion keeps what predictConversion
\* answered
PredictCLV(leadData, openai, score) ==
    LET r == predictConversion(loadMetrics("conversions"), leadData, openai, score)
        clv == predictCLV(r)
    IN /\ ret' = [op |-> "predictCLV", outcome |-> clv.outcome, value |-> clv.value,
                  conversion |-> r.value]
       /\ AnswersOnly

----------------------------------------------------------------------------
(* A/B test ledger (training/index.js, runABTest and recordABResult)       *)

\* a JSON object with no keys
EmptyObject == [k \in {} |-> 0]

\* obj[key] = value
Put(obj, key, value) ==
    [k \in DOMAIN obj \cup {key} |-> IF k = key THEN value ELSE obj[k]]

TestIds == {"t1", "t2"}
Variants == {"A", "B"}

ABUnchangedElsewhere ==
    UNCHANGED <<files, hist, weights, modelsFile, lastTraining, now, trainPc, trainModels,
                runStartLT, doneAt, durableDoneAt, crash, ai, inflight, outreach>>

\* the test record runABTest builds (its `started` time is never read)
NewTest(testId, variantA, variantB) ==
    [id |-> testId, variantA |-> variantA, variantB |-> variantB,
     results |-> [a |-> 0, b |-> 0, aConversions |-> 0, bConversions |-> 0]]

\* results[variant === 'A' ? 'aConversions' : 'bConversions']++
BumpConversions(results, variant) ==
    IF variant = "A"
    THEN [results EXCEPT !.aConversions = @ + 1]
    ELSE [results EXCEPT !.bConversions = @ + 1]

\* results[variant === 'a' ? 'a' : 'b']++
BumpExposure(results, variant) ==
    IF variant = "a"
    THEN [results EXCEPT !.a = @ + 1]
    ELSE [results EXCEPT !.b = @ + 1]

RunABTest(testId, variantA, variantB) ==
    /\ IF abFile.st = "corrupt"
       THEN /\ ret' = [op |-> "runABTest", outcome |-> "threw", value |-> "SyntaxError"]
            /\ UNCHANGED <<abFile, abLog>>
       ELSE /\ abFile' = [st |-> "valid",
                          data |-> Put(IF abFile.st = "valid" THEN abFile.data ELSE EmptyObject,
                                       testId, NewTest(testId, variantA, variantB))]
            /\ abLog' = SelectSeq(abLog, LAMBDA e : e.id # testId)
            /\ ret' = [op |-> "runABTest", outcome |-> "returned", value |-> "running"]
    /\ ABUnchangedElsewhere

\* recordABResult without the if (tests[testId]) guard
RecordABResultUnguarded(testId, variant, converted) ==
    /\ Len(abLog) < MaxABResults
    /\ IF abFile.st = "absent"
       THEN /\ ret' = [op |-> "recordABResult", outcome |-> "returned", value |-> "undefined",
                       testId |-> testId]
            /\ UNCHANGED <<abFile, abLog>>
       ELSE IF abFile.st = "corrupt"
       THEN /\ ret' = [op |-> "recordABResult", outcome |-> "threw", value |-> "SyntaxError",
                       testId |-> testId]
            /\ UNCHANGED <<abFile, abLog>>
       ELSE IF testId \in DOMAIN abFile.data
       THEN /\ abFile' = [abFile EXCEPT !.data[testId].results =
                              BumpExposure(BumpConversions(@, variant), variant)]
            /\ abLog' = Append(abLog, [id |-> testId, variant |-> variant,
                                       converted |-> converted])
            /\ ret' = [op |-> "recordABResult", outcome |-> "returned", value |-> "undefined",
                       testId |-> testId]
       ELSE /\ ret' = [op |-> "recordABResult", outcome |-> "threw", value |-> "TypeError",
                       testId |-> testId]
            /\ UNCHANGED <<abFile, abLog>>
    /\ ABUnchangedElsewhere

RecordABResult(testId, variant, converted) ==
    /\ Len(abLog) < MaxABResults
    /\ IF abFile.st = "absent"
       THEN /\ ret' = [op |-> "recordABResult", outcome |-> "returned", value |-> "undefined",
                       testId |-> testId]
            /\ UNCHANGED <<abFile, abLog>>
       ELSE IF abFile.st = "corrupt"
       THEN /\ ret' = [op |-> "recordABResult", outcome |-> "threw", value |-> "SyntaxError",
                       testId |-> testId]
            /\ UNCHANGED <<abFile, abLog>>
       ELSE IF testId \in DOMAIN abFile.data
       THEN /\ abFile' = [abFile EXCEPT !.data[testId].results =
                              BumpExposure(BumpConversions(@, variant), variant)]
            /\ abLog' = Append(abLog, [id |-> testId, variant |-> variant,
                                       converted |-> converted])
            /\ ret' = [op |-> "recordABResult", outcome |-> "returned", value |-> "undefined",
                       testId |-> testId]
       ELSE /\ ret' = [op |-> "recordABResult", outcome |-> "returned", value |-> "undefined",
                       testId |-> testId]
            /\ UNCHANGED <<abFile, abLog>>
    /\ ABUnchangedElsewhere

----------------------------------------------------------------------------
(* Training pipeline (training/index.js, shouldTrain, train, saveModels)   *)

\* shouldTrain() with >= for >
shouldTrainInclusive ==
    IF lastTraining = Null THEN TRUE ELSE now - lastTraining >= TrainingInterval

\* shouldTrain()
shouldTrain ==
    IF lastTraining = Null THEN TRUE ELSE now - lastTraining > TrainingInterval

InsufficientData(name, n) == [name |-> name, status |-> "insufficient_data", samples |-> n]

\* { name, ...model }: the statistics a sub-trainer derives are not held, only
\* the model's name, type and trainedAt
Trained(name) == [name |-> name, type |-> name, trainedAt |-> now]

\* trainSubjectLineModel() raises a TypeError: past the sample floor,
\* email.subject.length / .includes on a subject that is not a string
SubjectLineThrows ==
    LET emailPerf == loadMetrics("email_performance")
    IN /\ Len(emailPerf) >= MinSubjectSamples
       /\ \E i \in 1..Len(emailPerf) : emailPerf[i].subject = NoString

\* trainSubjectLineModel(), when it returns
trainSubjectLineModel ==
    LET emailPerf == loadMetrics("email_performance")
    IN IF Len(emailPerf) < MinSubjectSamples
       THEN InsufficientData("subject_line", Len(emailPerf))
       ELSE Trained("subject_line")

trainPricingModel ==
    LET pricing == loadMetrics("pricing")
    IN IF Len(pricing) < MinPricingSamples
       THEN InsufficientData("pricing", Len(pricing))
       ELSE Trained("pricing")

trainContentModel ==
    LET content == loadMetrics("content_performance")
    IN IF Len(content) < MinContentSamples
       THEN InsufficientData("content", Len(content))
       ELSE Trained("content")

trainLeadScoringModel ==
    LET conversions == loadMetrics("conversions")
    IN IF Len(conversions) < MinLeadSamples
       THEN InsufficientData("lead_scoring", Len(conversions))
       ELSE Trained("lead_scoring")

RECURSIVE MergeKeepOld(_, _)
\* the merge that keeps a record already stored under a name
MergeKeepOld(existing, models) ==
    IF models = <<>> THEN existing
    ELSE MergeKeepOld(IF Head(models).name \in DOMAIN existing THEN existing
                      ELSE Put(existing, Head(models).name, Head(models)), Tail(models))

\* models.forEach(model => existing[model.name] = model)
RECURSIVE Merge(_, _)
Merge(existing, models) ==
    IF models = <<>> THEN existing
    ELSE Merge(Put(existing, Head(models).name, Head(models)), Tail(models))

TrainUnchangedElsewhere ==
    UNCHANGED <<files, hist, weights, abFile, abLog, crash, ai, inflight, outreach>>

\* Date.now() moves on
Tick ==
    /\ now < MaxNow
    /\ now' = now + 1
    /\ UNCHANGED <<files, hist, weights, ret, modelsFile, abFile, abLog, lastTraining,
                   trainPc, trainModels, runStartLT, doneAt, durableDoneAt, crash, ai, inflight, outreach>>

\* train() up to its first await: the call of trainSubjectLineModel()
TrainBegins ==
    /\ trainPc = "idle"
    /\ runStartLT' = lastTraining
    /\ IF SubjectLineThrows
       THEN /\ ret' = [op |-> "train", outcome |-> "threw", value |-> "TypeError"]
            /\ UNCHANGED <<trainPc, trainModels>>
       ELSE /\ trainPc' = "await_subject_line"
            /\ trainModels' = <<trainSubjectLineModel>>
            /\ ret' = [op |-> "train", outcome |-> "pending", value |-> "undefined"]

\* a call of train() by whoever holds the pipeline
TrainStart ==
    /\ TrainBegins
    /\ UNCHANGED <<modelsFile, lastTraining, now, doneAt, durableDoneAt>>
    /\ TrainUnchangedElsewhere

\* AIBusiness.init(): this.ai.init(), then train() if shouldTrain(). It is
\* the only place of the program that calls train().
BusinessInit(env) ==
    /\ ai = NewAICore
    /\ ai' = init(ai, env)
    /\ IF shouldTrain
       THEN TrainBegins
       ELSE /\ trainPc = "idle"
            /\ ret' = [op |-> "init", outcome |-> "returned", value |-> "initialized"]
            /\ UNCHANGED <<trainPc, trainModels, runStartLT>>
    /\ UNCHANGED <<files, hist, weights, modelsFile, abFile, abLog, lastTraining, now,
                   doneAt, durableDoneAt, crash, inflight, outreach>>

\* a resumption that also stores the awaited result at once
TrainStepSaving(from, to, result) ==
    /\ trainPc = from
    /\ trainPc' = to
    /\ trainModels' = Append(trainModels, result)
    /\ modelsFile' = [st |-> "valid",
                      data |-> Merge(IF modelsFile.st = "valid" THEN modelsFile.data
                                     ELSE EmptyObject, <<result>>)]
    /\ UNCHANGED <<ret, lastTraining, now, runStartLT, doneAt, durableDoneAt>>
    /\ TrainUnchangedElsewhere

\* a resumption of train() that pushes the awaited result and calls the next sub-trainer
TrainStep(from, to, result) ==
    /\ trainPc = from
    /\ trainPc' = to
    /\ trainModels' = Append(trainModels, result)
    /\ UNCHANGED <<ret, modelsFile, lastTraining, now, runStartLT, doneAt, durableDoneAt>>
    /\ TrainUnchangedElsewhere

TrainPricing == TrainStep("await_subject_line", "await_pricing", trainPricingModel)
TrainContent == TrainStep("await_pricing", "await_content", trainContentModel)
TrainLeadScoring == TrainStep("await_content", "await_lead_scoring", trainLeadScoringModel)

\* TrainFinish with this.lastTraining = Date.now() moved before saveModels
TrainFinishStampFirst ==
    /\ trainPc = "await_lead_scoring"
    /\ trainPc' = "idle"
    /\ trainModels' = <<>>
    /\ lastTraining' = now
    /\ IF modelsFile.st = "corrupt"
       THEN /\ ret' = [op |-> "train", outcome |-> "threw", value |-> "SyntaxError"]
            /\ UNCHANGED <<modelsFile, doneAt, durableDoneAt>>
       ELSE /\ modelsFile' = [st |-> "valid",
                              data |-> Merge(IF modelsFile.st = "valid" THEN modelsFile.data
                                             ELSE EmptyObject, trainModels)]
            /\ doneAt' = now
            /\ durableDoneAt' = now
            /\ ret' = [op |-> "train", outcome |-> "returned", value |-> "results"]
    /\ UNCHANGED <<now, runStartLT>>
    /\ TrainUnchangedElsewhere

\* the last resumption: saveModels(results.models), this.lastTraining = Date.now().
\* saveModels parses an existing file outside any try block
TrainFinish ==
    /\ trainPc = "await_lead_scoring"
    /\ trainPc' = "idle"
    /\ trainModels' = <<>>
    /\ IF modelsFile.st = "corrupt"
       THEN /\ ret' = [op |-> "train", outcome |-> "threw", value |-> "SyntaxError"]
            /\ UNCHANGED <<modelsFile, lastTraining, doneAt, durableDoneAt>>
       ELSE /\ modelsFile' = [st |-> "valid",
                              data |-> Merge(IF modelsFile.st = "valid" THEN modelsFile.data
                                             ELSE EmptyObject, trainModels)]
            /\ lastTraining' = now
            /\ doneAt' = now
            /\ durableDoneAt' = now
            /\ ret' = [op |-> "train", outcome |-> "returned", value |-> "results"]
    /\ UNCHANGED <<now, runStartLT>>
    /\ TrainUnchangedElsewhere

----------------------------------------------------------------------------
(* Process death and restart.  Everything a LearningEngine or a            *)
(* TrainingPipeline holds in memory is set again by its constructor        *)
(* (learning-engine.js:11-25, training/index.js:11-19); the files stay.    *)

EmailInputs ==
    {[subject |-> s, sentAt |-> Morning, opened |-> FALSE, converted |-> c] :
        s \in Subjects, c \in BOOLEAN}

RecordFor(name, input) ==
    CASE name = "email_performance" ->
            [timestamp |-> Stamp(name), subject |-> input.subject, sentAt |-> input.sentAt,
             opened |-> input.opened, converted |-> input.converted]
      [] name = "conversions" -> [timestamp |-> Stamp(name), outcome |-> input]
      [] name = "pricing" -> [timestamp |-> Stamp(name), outcome |-> input]
      [] name = "content_performance" -> [timestamp |-> Stamp(name), type |-> input]

InputsOf(name) ==
    CASE name = "email_performance" -> EmailInputs
      [] name = "conversions" -> Outcomes
      [] name = "pricing" -> {"accepted"}
      [] name = "content_performance" -> {"blog"}

\* fs.writeFileSync opens the file with flag 'w', which truncates it, then writes
\* the text: a process that dies in between leaves a prefix of the text, which
\* is never a complete JSON array
CutWrite(name, data, point) ==
    CASE point = "before_open" -> files
      [] point = "in_write" -> [files EXCEPT ![name] = [st |-> "corrupt", data |-> <<>>]]
      [] point = "after_write" -> saveMetrics(name, data)

CrashPoints == {"before_open", "in_write", "after_write"}

MemoryReset ==
    /\ weights' = DefaultWeights
    /\ lastTraining' = Null
    /\ trainPc' = "idle"
    /\ trainModels' = <<>>
    /\ doneAt' = Null
    /\ ai' = NewAICore
    /\ inflight' = {}
    /\ outreach' = NoOutreach

\* the process dies while a tracking call on `name` is in saveMetrics, and is started again
CrashInTrack(name, input, point) ==
    LET rec == RecordFor(name, input)
        metrics == Appended(name, rec)
    IN /\ MayTrack(name)
       /\ crash.n < MaxCrashes
       /\ crash' = [cat |-> name, old |-> loadMetrics(name), new |-> metrics, n |-> crash.n + 1]
       /\ files' = CutWrite(name, metrics, point)
       /\ hist' = IF point = "after_write" THEN [hist EXCEPT ![name] = Append(@, rec)] ELSE hist
       /\ ret' = [op |-> "crash", outcome |-> "none", value |-> point]
       /\ MemoryReset
       /\ UNCHANGED <<modelsFile, abFile, abLog, now, runStartLT, durableDoneAt>>

\* the tracking operation that appends to a category
OpOf(name) ==
    CASE name = "email_performance" -> "trackEmail"
      [] name = "conversions" -> "trackConversion"
      [] name = "pricing" -> "trackPricing"
      [] name = "content_performance" -> "trackContent"

\* fs.writeFileSync raises: at the open (EACCES, EROFS: the file is untouched)
\* or at the write after the open has truncated the file (ENOSPC, EIO)
WriteFailPoints == {"before_open", "in_write"}

\* a tracking call on `name` whose saveMetrics raises: no tracking operation
\* has a try block around it, so the error leaves the async function as a
\* rejection; the process lives on
PersistFails(name, input, point) ==
    LET rec == RecordFor(name, input)
        metrics == Appended(name, rec)
    IN /\ MayTrack(name)
       /\ crash' = [cat |-> name, old |-> loadMetrics(name), new |-> metrics, n |-> crash.n]
       /\ files' = CutWrite(name, metrics, point)
       /\ ret' = [op |-> OpOf(name), outcome |-> "threw", value |-> "Error"]
       /\ UNCHANGED <<hist, weights, modelsFile, abFile, abLog, lastTraining, now, trainPc,
                      trainModels, runStartLT, doneAt, durableDoneAt, ai, inflight, outreach>>

\* the process ends (between two steps of whatever it was running) and is
\* started again: new AIBusiness() constructs every object afresh
Restart ==
    /\ crash.n < MaxCrashes
    /\ crash' = [cat |-> "none", old |-> <<>>, new |-> <<>>, n |-> crash.n + 1]
    /\ ret' = IF trainPc = "idle"
              THEN [op |-> "restart", outcome |-> "none", value |-> "undefined"]
              ELSE [op |-> "train", outcome |-> "interrupted", value |-> "undefined"]
    /\ MemoryReset
    /\ UNCHANGED <<files, hist, modelsFile, abFile, abLog, now, runStartLT, durableDoneAt>>

\* the process dies inside the fs.writeFileSync of saveModels (training/index.js:225)
CrashInSaveModels ==
    /\ crash.n < MaxCrashes
    /\ trainPc = "await_lead_scoring"
    /\ modelsFile.st # "corrupt"
    /\ crash' = [cat |-> "none", old |-> <<>>, new |-> <<>>, n |-> crash.n + 1]
    /\ modelsFile' = [st |-> "corrupt", data |-> EmptyObject]
    /\ ret' = [op |-> "train", outcome |-> "interrupted", value |-> "undefined"]
    /\ MemoryReset
    /\ UNCHANGED <<files, hist, abFile, abLog, now, runStartLT, durableDoneAt>>

\* the process dies inside the fs.writeFileSync of runABTest or recordABResult
\* (training/index.js:263, 278), which leaves a cut ab_tests.json
CrashInABWrite ==
    /\ crash.n < MaxCrashes
    /\ trainPc = "idle"
    /\ abFile.st # "corrupt"
    /\ crash' = [cat |-> "none", old |-> <<>>, new |-> <<>>, n |-> crash.n + 1]
    /\ abFile' = [st |-> "corrupt", data |-> EmptyObject]
    /\ abLog' = <<>>
    /\ ret' = [op |-> "crash", outcome |-> "none", value |-> "in_write"]
    /\ MemoryReset
    /\ UNCHANGED <<files, hist, modelsFile, now, runStartLT, durableDoneAt>>

\* loadModels(): null without a file, else JSON.parse of it, outside any try
loadModels ==
    IF modelsFile.st = "absent" THEN [outcome |-> "returned", value |-> "null"]
    ELSE IF modelsFile.st = "corrupt" THEN [outcome |-> "threw", value |-> "SyntaxError"]
    ELSE [outcome |-> "returned", value |-> "models"]

LoadModels ==
    /\ trainPc = "idle"
    /\ ret' = [op |-> "loadModels", outcome |-> loadModels.outcome, value |-> loadModels.value]
    /\ AnswersOnly

\* getModel(name): models ? models[name] : null
GetModel(name) ==
    /\ trainPc = "idle"
    /\ ret' = [op |-> "getModel", outcome |-> loadModels.outcome,
               value |-> IF loadModels.value # "models" THEN loadModels.value
                         ELSE IF name \in DOMAIN modelsFile.data THEN "model"
                         ELSE "undefined"]
    /\ AnswersOnly

----------------------------------------------------------------------------
Init ==
    /\ files = [c \in Categories |-> AbsentFile]
    /\ hist = [c \in Categories |-> <<>>]
    /\ weights = DefaultWeights
    /\ ret = [op |-> "none", outcome |-> "returned", value |-> "undefined"]
    /\ modelsFile = [st |-> "absent", data |-> EmptyObject]
    /\ abFile = [st |-> "absent", data |-> EmptyObject]
    /\ abLog = <<>>
    /\ lastTraining = Null
    /\ now = 1
    /\ trainPc = "idle"
    /\ trainModels = <<>>
    /\ runStartLT = Null
    /\ doneAt = Null
    /\ durableDoneAt = Null
    /\ crash = [cat |-> "none", old |-> <<>>, new |-> <<>>, n |-> 0]
    /\ ai = NewAICore
    /\ inflight = {}
    /\ outreach = NoOutreach

NextStore ==
    \/ \E s \in Subjects, c \in BOOLEAN : TrackEmail(s, Morning, FALSE, c)
    \/ \E o \in Outcomes : TrackConversion(o)
    \/ TrackPricing("accepted")
    \/ TrackContent("blog")

SpecStore == Init /\ [][NextStore]_vars

NextCrash ==
    \/ NextStore
    \/ \E name \in Categories : \E input \in InputsOf(name), point \in CrashPoints :
          CrashInTrack(name, input, point)

SpecCrash == Init /\ [][NextCrash]_vars

----------------------------------------------------------------------------
(* Claims on the metric store                                              *)

\* C1: from an empty store, after N tracking calls on a category a load of it
\* returns exactly min(N, cap) records, all of them appended records, in the
\* order in which they were appended.
C1_LoadReturnsMinNCapInOrder ==
    \A c \in Categories :
        LET got == loadMetrics(c)
        IN /\ Len(got) = Min(Len(hist[c]), CapOf(c))
           /\ \A i \in 1..Len(got) : \E j \in 1..Len(hist[c]) : got[i] = hist[c][j]
           /\ \A i, j \in 1..Len(got) : i < j => got[i].timestamp < got[j].timestamp

C1_Witness ==
    /\ Len(hist["pricing"]) = PricingCap + 2
    /\ Len(loadMetrics("pricing")) = PricingCap

\* C2: an append that would exceed the cap removes exactly the oldest records
\* (the head) until the cap is met; the record just appended is the last
\* element of the persisted collection.
C2_EvictsOldestKeepsNewest ==
    [][\A c \in Categories :
          hist'[c] # hist[c] =>
             LET rec == hist'[c][Len(hist'[c])]
                 all == Append(loadMetrics(c), rec)
                 new == loadMetrics(c)'
                 k == Max(0, Len(all) - CapOf(c))
             IN /\ new = SubSeq(all, k + 1, Len(all))
                /\ new[Len(new)] = rec]_vars

C2_Witness ==
    /\ Len(hist["email_performance"]) > EmailCap
    /\ loadMetrics("email_performance")[1].timestamp
          = (Len(hist["email_performance"]) - EmailCap) + 1
    /\ loadMetrics("email_performance")[EmailCap]
          = hist["email_performance"][Len(hist["email_performance"])]

\* C3: after a crash at any point of an append, a load of the category
\* returns the complete previous sequence or the complete new sequence.
C3_CrashLeavesOldOrNew ==
    ret.op = "crash" => loadMetrics(crash.cat) \in {crash.old, crash.new}

\* C4: whenever trackEmail has persisted the record, it completes with its
\* acknowledgement.
C4_TrackEmailAlwaysAcks ==
    ret.op = "trackEmail" => ret.outcome = "returned" /\ ret.value = "tracked"

\* C17: each of the four tracking operations (trackEmail, trackConversion,
\* trackPricing, trackContent) returns an acknowledgement to its caller once
\* the record has been appended.
C17_EveryTrackingCallAcks ==
    ret.op \in {"trackEmail", "trackConversion", "trackPricing", "trackContent"} =>
        (ret.outcome = "returned" /\ ret.value = "tracked")

----------------------------------------------------------------------------
(* Tracking calls issued concurrently                                      *)

\* trackEmail calls that wait at their await while further tracking calls, a
\* direct weight update and a run of train() take their turns
NextInterleave ==
    \/ TrackEmailBegins(<<"Quick", "question">>, Morning, FALSE, TRUE)
    \/ \E call \in inflight : TrackEmailResumes(call)
    \/ TrackConversion("sale")
    \/ UpdateWeights
    \/ TrainStart
    \/ TrainPricing
    \/ TrainContent
    \/ TrainLeadScoring
    \/ TrainFinish

SpecInterleave == Init /\ [][NextInterleave]_vars

\* C37: under any interleaving of concurrently issued tracking calls, a weight
\* update and a run of train(), no append is lost: the persisted collection
\* of every category is exactly the appended records up to the cap, those of
\* the calls still at their await included.
C37_NoAppendLost ==
    /\ \A c \in Categories : loadMetrics(c) = Retain(hist[c], CapOf(c))
    /\ \A call \in inflight :
          \E j \in 1..Len(hist["email_performance"]) :
              /\ hist["email_performance"][j] = call.rec
              /\ call.metrics = Retain(SubSeq(hist["email_performance"], 1, j), EmailCap)

C37_Witness ==
    /\ Cardinality(inflight) >= 2
    /\ trainPc # "idle"
    /\ Len(hist["conversions"]) >= 1
    /\ Len(hist["email_performance"]) > EmailCap

----------------------------------------------------------------------------
(* Claims on loading what a cut write left                                 *)

NextLoad ==
    \/ TrackEmail(<<"Quick", "question">>, Morning, FALSE, FALSE)
    \/ \E o \in Outcomes : TrackConversion(o)
    \/ \E point \in CrashPoints :
          \/ CrashInTrack("email_performance",
                          [subject |-> <<"Quick", "question">>, sentAt |-> Morning,
                           opened |-> FALSE, converted |-> FALSE], point)
          \/ CrashInTrack("conversions", "sale", point)
    \/ \E lead \in Leads \ {NoLead}, openai \in BOOLEAN : PredictConversion(lead, openai, 50)
    \/ PredictBestSendTime

SpecLoad == Init /\ [][NextLoad]_vars

\* C21: loading a metric category never fails: it gives the empty sequence when
\* nothing is stored and when the stored text does not parse, so that a
\* tracking call or a prediction that starts with such a load completes (the
\* tracking call stores exactly its own record, the prediction answers).
C21_LoadNeverFails ==
    [][\A c \in Categories :
          files[c].st # "valid" =>
             /\ loadMetrics(c) = <<>>
             /\ (hist'[c] # hist[c] /\ ret'.op # "crash") =>
                   /\ ret'.outcome = "returned"
                   /\ loadMetrics(c)' = <<hist'[c][Len(hist'[c])]>>
             /\ (c = "conversions" /\ ret'.op = "predictConversion") =>
                   /\ ret'.outcome = "returned"
                   /\ ret'.value = [probability |-> 10, confidence |-> "low"]
             /\ (c = "email_performance" /\ ret'.op = "predictBestSendTime") =>
                   /\ ret'.outcome = "returned"
                   /\ ret'.value.confidence = "low"]_vars

C21_Witness ==
    /\ ret.op = "trackConversion"
    /\ ret.outcome = "returned"
    /\ Len(hist["conversions"]) = 2
    /\ Len(loadMetrics("conversions")) = 1
    /\ files["email_performance"].st = "absent"

----------------------------------------------------------------------------
(* Claims on a write that fails                                            *)

NextPersist ==
    \/ TrackEmail(<<"Quick", "question">>, Morning, FALSE, FALSE)
    \/ TrackConversion("sale")
    \/ TrackPricing("accepted")
    \/ \E point \in WriteFailPoints :
          \/ PersistFails("email_performance",
                          [subject |-> <<"Quick", "question">>, sentAt |-> Morning,
                           opened |-> FALSE, converted |-> FALSE], point)
          \/ PersistFails("conversions", "sale", point)
          \/ PersistFails("pricing", "accepted", point)

SpecPersist == Init /\ [][NextPersist]_vars

\* the last tracking call could not persist its collection
PersistFailed == crash.cat # "none" /\ ret.op = OpOf(crash.cat)

\* C22: when persisting the new collection fails during a tracking call, the
\* caller gets a failure result (the call returns, with something other than
\* the success acknowledgement, and raises no error), and the collection
\* persisted before is unchanged.
C22_PersistFailureIsReported ==
    PersistFailed =>
        /\ ret.outcome = "returned"
        /\ ret.value # "tracked"
        /\ files[crash.cat].st # "corrupt"
        /\ loadMetrics(crash.cat) = crash.old

----------------------------------------------------------------------------
(* Claims on the calls that await a collaborator                           *)

NextCollab ==
    \/ Idle /\ \E c \in BOOLEAN : TrackEmail(<<"Quick", "question">>, Morning, FALSE, c)
    \/ Idle /\ TrackConversion("sale")
    \/ \E b \in BusinessTypes, openai \in BOOLEAN : GetOptimizedSubject(b, openai)
    \/ \E reply \in TextReplies : TextGenerationSettles(reply)
    \/ GetOptimizedSubjectResumes
    \/ \E lead \in Leads, openai \in BOOLEAN : PredictConversionCall(lead, openai)
    \/ \E reply \in ScoringReplies : LeadScoringSettles(reply)
    \/ PredictConversionResumes

SpecCollab == Init /\ [][NextCollab]_vars

\* the calls run on when what they await is settled; nothing makes a
\* collaborator settle
SpecCollabFair ==
    /\ SpecCollab
    /\ WF_(ret.outcome)(GetOptimizedSubjectResumes)
    /\ WF_(ret.outcome)(PredictConversionResumes)

\* C23: no core operation blocks for ever on a collaborator: a
\* getOptimizedSubject or predictConversion call that awaits one returns in
\* the end even if the collaborator never responds.
C23_NoCallPendsForEver ==
    (ret.op \in {"getOptimizedSubject", "predictConversion"} /\ ret.outcome = "pending")
        ~> (ret.outcome # "pending")

\* C24: a failed lead-scoring call is treated like an unavailable
\* collaborator: the probability returned is the unblended heuristic
\* probability for the same conversions and leadData, and no error reaches
\* the caller.
C24_FailedScoringIsUnblended ==
    (/\ ret.op = "predictConversion"
     /\ ret.outcome # "pending"
     /\ ret.asked
     /\ ret.reply.kind \in {"unparsable", "rejected"}) =>
        /\ ret.outcome = "returned"
        /\ ret.value.probability =
              Predicted(loadMetrics("conversions"), ret.input.leadData, FALSE, 0).probability

\* the members of the template pool of a business type
Pool(businessType) ==
    {Templates(businessType)[i] : i \in 1..Len(Templates(businessType))}

SubjectsTaken ==
    Min(SubjectWindow, NumConverted(loadMetrics("email_performance")))

\* C34: getOptimizedSubject delegates to the text-generation collaborator
\* exactly when the collaborator is available and at least 10 subjects of
\* converted emails (of the last 50 at most) exist, exactly 10 included.
C34_DelegatesFromFloorOn ==
    ret.op = "getOptimizedSubject" =>
        /\ ret.subjects = SubjectsTaken
        /\ ret.asked <=> (ret.input.openai /\ SubjectsTaken >= MinConvertedSubjects)

\* C34 as the code has it: getOptimizedSubject delegates exactly when the
\* collaborator is available and more than 10 such subjects exist; with
\* exactly 10 it answers from the templates.
C34_DelegatesAboveFloor ==
    ret.op = "getOptimizedSubject" =>
        /\ ret.subjects = SubjectsTaken
        /\ ret.asked <=> (ret.input.openai /\ SubjectsTaken > MinConvertedSubjects)

C34_Witness ==
    /\ ret.op = "getOptimizedSubject"
    /\ ret.input.openai
    /\ SubjectsTaken = MinConvertedSubjects
    /\ ~ret.asked
    /\ ret.outcome = "returned"
    /\ ret.value \in Pool(ret.input.businessType)

----------------------------------------------------------------------------
(* Claims on the AI core                                                   *)

NextAICore ==
    \/ \E env \in Envs : AIInit(env)
    \/ CheckOllamaSettles
    \/ GenerateOutreachEmail
    \/ \E reply \in ChatReplies \cup OllamaReplies : ProviderSettles(reply)
    \/ GenerateOutreachEmailResumes

SpecAICore == Init /\ [][NextAICore]_vars

\* C26: when the request to the selected provider fails, whichever provider
\* it is, generateOutreach_email returns the template result: the caller
\* gets a {subject, body} and neither null nor an error.
C26_ProviderFailureGivesTemplate ==
    (/\ ret.op = "generateOutreach_email"
     /\ ret.outcome # "pending"
     /\ ret.reply \in FailedReplies) =>
        /\ ret.outcome = "returned"
        /\ ret.value \in TemplateEmails

\* the provider the documented priority asks for
DocumentedProvider(env) ==
    IF env.ollamaUp THEN "ollama"
    ELSE IF env.deepseek = "set" THEN "deepseek"
    ELSE IF env.openai = "set" THEN "openai"
    ELSE "template"

\* init has run to its end, checkOllama included
Initialised == ai.provider # "null"

\* C27: the provider is chosen in the order Ollama, DeepSeek, OpenAI,
\* templates: a reachable Ollama is selected even when a key is configured,
\* and templates only when none of the three is available.
C27_OllamaHasPriority ==
    Initialised => ai.provider = DocumentedProvider(ai.env)

----------------------------------------------------------------------------
(* Claims on the weight update                                             *)

NextWeights ==
    \/ \E s \in Subjects, c \in BOOLEAN : TrackEmail(s, Morning, FALSE, c)
    \/ UpdateWeights

SpecWeights == Init /\ [][NextWeights]_vars

\* the gate of updateWeights is not met by the stored emails
BelowGate ==
    \/ Len(loadMetrics("email_performance")) < MinEmailsForWeights
    \/ NumConverted(loadMetrics("email_performance")) < MinConvertedForWeights

\* C15: updateWeights() called with fewer than 50 email records, or fewer than
\* 5 converted ones, leaves every weight unchanged and returns the current
\* weight set.
C15_BelowGateReturnsWeights ==
    (ret.op = "updateWeights" /\ BelowGate) =>
        /\ ret.outcome = "returned"
        /\ weights = ret.before
        /\ ret.value = weights

\* below the gate updateWeights() changes no weight and raises nothing
BelowGateLeavesWeights ==
    (ret.op = "updateWeights" /\ BelowGate) =>
        /\ ret.outcome = "returned"
        /\ weights = ret.before

\* C16: in every reachable state each of the four weights lies in [0,1] and
\* none exceeds 0.5.
C16_WeightsWithinCap ==
    /\ DOMAIN weights = {"subjectLine", "sendTime", "offerPrice", "contentQuality"}
    /\ \A k \in DOMAIN weights : weights[k] >= 0 /\ weights[k] <= 100 /\ weights[k] <= WeightCap

C16_Witness ==
    /\ ret.op = "updateWeights"
    /\ ret.outcome = "returned"
    /\ ~BelowGate
    /\ ret.before.subjectLine = WeightCap
    /\ weights.subjectLine = WeightCap

----------------------------------------------------------------------------
(* Claims on what may change the weights                                   *)

NextFrame ==
    \/ \E c \in BOOLEAN : TrackEmail(<<"Quick", "question">>, Morning, FALSE, c)
    \/ TrackConversion("sale")
    \/ UpdateWeights
    \/ PredictConversion([touchpoints |-> 2], FALSE, 0)
    \/ GetInsights
    \/ TrainStart
    \/ TrainPricing
    \/ TrainContent
    \/ TrainLeadScoring
    \/ TrainFinish

SpecFrame == Init /\ [][NextFrame]_vars

WeightKeys == {"subjectLine", "sendTime", "offerPrice", "contentQuality"}

\* C31: only the weight update changes a weight: a step that changes one is
\* updateWeights(), called directly or at the end of trackEmail, and the
\* change is the update's; tracking appends, predictions, insights and
\* training change none; no key is removed; sendTime, offerPrice and
\* contentQuality keep their defaults 0.2, 0.25 and 0.25.
C31_OnlyTheUpdateChangesWeights ==
    [][/\ weights' # weights =>
            /\ ret'.op \in {"updateWeights", "trackEmail"}
            /\ weights' = updateWeights(loadMetrics("email_performance")', weights).weights
       /\ DOMAIN weights' = WeightKeys
       /\ weights'.sendTime = 20 /\ weights'.offerPrice = 25 /\ weights'.contentQuality = 25]_vars

C31_Witness ==
    /\ ret.op \in {"trackConversion", "predictConversion", "getInsights", "train"}
    /\ weights.subjectLine = WeightCap
    /\ weights.sendTime = 20

----------------------------------------------------------------------------
(* Claims on the rule of the weight update                                 *)

\* sizes of the first-word groups in the stores below: under the group floor,
\* at it, and one in which a rate of exactly 0.3 exists
GroupSizes == {GroupFloor - 1, GroupFloor, 10}

\* a stored email
Email(i, subject, converted) ==
    [timestamp |-> i, subject |-> subject, sentAt |-> Morning, opened |-> FALSE,
     converted |-> converted]

\* a store of a emails whose subject starts with Quick or quick, ka of them
\* converted, followed by b emails that start with Ideas, kb of them converted
RateStore(a, ka, b, kb) ==
    [i \in 1..(a + b) |->
        IF i <= a
        THEN Email(i, IF i % 2 = 1 THEN <<"Quick", "question">> ELSE <<"quick", "question">>,
                   i <= ka)
        ELSE Email(i, <<"Ideas", "for", "you">>, i - a <= kb)]

RateStores ==
    {RateStore(a, ka, b, kb) :
        a \in GroupSizes, ka \in 0..10, b \in {0, GroupFloor}, kb \in 0..GroupFloor}

InitRate ==
    /\ \E seed \in RateStores :
          /\ files = [c \in Categories |->
                        IF c = "email_performance"
                        THEN [st |-> "valid", data |-> seed] ELSE AbsentFile]
          /\ hist = [c \in Categories |-> IF c = "email_performance" THEN seed ELSE <<>>]
    /\ weights = DefaultWeights
    /\ ret = [op |-> "none", outcome |-> "returned", value |-> "undefined"]
    /\ modelsFile = [st |-> "absent", data |-> EmptyObject]
    /\ abFile = [st |-> "absent", data |-> EmptyObject]
    /\ abLog = <<>>
    /\ lastTraining = Null
    /\ now = 1
    /\ trainPc = "idle"
    /\ trainModels = <<>>
    /\ runStartLT = Null
    /\ doneAt = Null
    /\ durableDoneAt = Null
    /\ crash = [cat |-> "none", old |-> <<>>, new |-> <<>>, n |-> 0]
    /\ ai = NewAICore
    /\ inflight = {}
    /\ outreach = NoOutreach

NextRate == UpdateWeights

SpecRate == InitRate /\ [][NextRate]_vars

\* the lower-cased first tokens of the stored subjects
FirstTokens ==
    LET emailPerf == loadMetrics("email_performance")
    IN {FirstWord(emailPerf[i].subject) : i \in 1..Len(emailPerf)}

\* the group of this word has at least 3 records and a conversion rate above
\* 0.3; the largest rate over such groups (0 when there is none) exceeds 0.3
\* exactly when some group qualifies
Qualifying(word) ==
    LET stats == GroupStats(loadMetrics("email_performance"), word)
    IN stats.total >= 3 /\ 10 * stats.converted > 3 * stats.total

\* C30: past the gate updateWeights groups the emails by the lower-cased
\* first token of the subject, takes R, the largest converted/total over
\* the groups of at least 3 records (0 if there is none), and sets
\* subjectLine to min(0.5, subjectLine + 0.1) exactly when R > 0.3, strictly;
\* otherwise, and in every other weight, nothing changes.
C30_BumpExactlyAboveThreshold ==
    (ret.op = "updateWeights" /\ ~BelowGate) =>
        /\ ret.outcome = "returned"
        /\ weights.subjectLine =
              IF \E word \in FirstTokens : Qualifying(word)
              THEN Min(50, ret.before.subjectLine + 10)
              ELSE ret.before.subjectLine
        /\ \A k \in {"sendTime", "offerPrice", "contentQuality"} : weights[k] = ret.before[k]

\* a group at exactly 0.3 (3 of 10, counted across Quick and quick) and no
\* group above it: no bump
C30_Witness ==
    /\ ret.op = "updateWeights"
    /\ ~BelowGate
    /\ GroupStats(loadMetrics("email_performance"), "quick") = [total |-> 10, converted |-> 3]
    /\ ~\E word \in FirstTokens : Qualifying(word)
    /\ weights = ret.before

----------------------------------------------------------------------------
(* Claims on predictConversion                                             *)

NextPredict ==
    \/ \E o \in Outcomes : TrackConversion(o)
    \/ \E lead \in Leads, openai \in BOOLEAN, score \in Scores :
          PredictConversion(lead, openai, score)

SpecPredict == Init /\ [][NextPredict]_vars

Stored == Len(loadMetrics("conversions"))

\* C9: with fewer than 10 stored conversions predictConversion returns
\* probability 0.1 and confidence "low", whatever the lead and whether or not
\* a scoring collaborator is available.
C9_FewConversionsGiveDefault ==
    (ret.op = "predictConversion" /\ Stored < MinLeads) =>
        /\ ret.outcome = "returned"
        /\ ret.value = [probability |-> 10, confidence |-> "low"]

C9_Witness ==
    /\ ret.op = "predictConversion"
    /\ Stored = MinLeads - 1
    /\ loadMetrics("conversions")[1].outcome = "sale"

Returned == ret.op = "predictConversion" /\ ret.outcome = "returned" /\ Stored >= MinLeads

\* C10 as stated: with at least 10 conversions the confidence is "high"
\* exactly when total >= 100, "medium" exactly when 50 <= total < 100, and
\* "low" otherwise.
C10_ConfidenceInclusive ==
    Returned =>
        /\ ret.value.confidence = "high" <=> Stored >= HighLeads
        /\ ret.value.confidence = "medium" <=> (Stored >= MediumLeads /\ Stored < HighLeads)
        /\ ret.value.confidence = "low" <=> Stored < MediumLeads

\* C10 amended: the confidence is "high" exactly when total > 100, "medium"
\* exactly when 50 < total <= 100, and "low" otherwise: 50 conversions give
\* "low" and 100 give "medium".
C10_ConfidenceStrict ==
    Returned =>
        /\ ret.value.confidence = "high" <=> Stored > HighLeads
        /\ ret.value.confidence = "medium" <=> (Stored > MediumLeads /\ Stored <= HighLeads)
        /\ ret.value.confidence = "low" <=> Stored <= MediumLeads

C10_Witness ==
    /\ Returned
    /\ Stored = HighLeads
    /\ ret.value.confidence = "medium"

----------------------------------------------------------------------------
(* Claims on predictCLV                                                    *)

NextCLV ==
    \/ \E o \in Outcomes : TrackConversion(o)
    \/ \E lead \in Leads, openai \in BOOLEAN, score \in Scores : PredictCLV(lead, openai, score)

SpecCLV == Init /\ [][NextCLV]_vars

\* C29: with p the probability predictConversion returned, predictCLV gives
\* predictedPurchases = 12p and a CLV of p * 99 * 12p rounded to two
\* decimals (the hundredth nearest to 1188 p^2), carries over the confidence,
\* and recommends "high_priority" exactly when the CLV exceeds 50, else
\* "standard"; below the conversions floor that is 11.88, "standard", "low".
C29_CLVFormula ==
    (ret.op = "predictCLV" /\ ret.outcome = "returned") =>
        LET p == ret.conversion.probability
            v == ret.value
        IN /\ v.factors.predictedPurchases = 12 * p
           /\ 100 * v.predictedCLV - 1188 * p * p \in -50..49
           /\ v.confidence = ret.conversion.confidence
           /\ v.recommendation = IF v.predictedCLV > 5000 THEN "high_priority" ELSE "standard"
           /\ v.recommendation = "high_priority" <=> 1188 * p * p > 500000
           /\ Len(loadMetrics("conversions")) < MinLeads =>
                 v.predictedCLV = 1188 /\ v.recommendation = "standard" /\ v.confidence = "low"

C29_Witness ==
    /\ ret.op = "predictCLV"
    /\ ret.outcome = "returned"
    /\ Len(loadMetrics("conversions")) >= MinLeads
    /\ ret.value.recommendation = "high_priority"
    /\ ret.value.predictedCLV = 96228

----------------------------------------------------------------------------
(* Claims on the predictive engine's pure operations                       *)

NextAdvice ==
    \/ Tick
    \/ \E m \in EngagementMetrics(now) : PredictChurn(m)
    \/ \E h \in Histories : RecommendNextAction(h)
    \/ \E m \in AnomalyMetrics : DetectAnomalies(m)

SpecAdvice == Init /\ [][NextAdvice]_vars

\* the risk conditions of the claim that hold for m at the hour t
RiskConditions(m, t) ==
    {c \in {"inactive", "low_open_rate", "no_purchase"} :
        \/ c = "inactive" /\ (~m.lastActive.set \/ t - m.lastActive.v > InactiveLimit)
        \/ c = "low_open_rate" /\ (m.openRate.set /\ m.openRate.v < LowOpenRate)
        \/ c = "no_purchase" /\ (~m.lastPurchase.set \/ t - m.lastPurchase.v > PurchaseLimit)}

RiskSum(conds) ==
    (IF "inactive" \in conds THEN 30 ELSE 0) + (IF "low_open_rate" \in conds THEN 20 ELSE 0)
        + (IF "no_purchase" \in conds THEN 40 ELSE 0)

\* C11: predictChurn's riskScore is the sum of +30 (lastActive absent or older
\* than 30 days), +20 (openRate < 20) and +40 (lastPurchase absent or older
\* than 60 days); it lies in 0..100 and is never lower for metrics that satisfy
\* additional risk conditions; level is "high" iff score > 60, "medium" iff
\* 30 < score <= 60, else "low", and recommendedAction follows the same tiers.
C11_ChurnScoreAndTiers ==
    ret.op = "predictChurn" =>
        LET conds == RiskConditions(ret.input, ret.at)
            score == ret.value.riskScore
        IN /\ score = RiskSum(conds)
           /\ score \in 0..100
           /\ \A m2 \in EngagementMetrics(ret.at) :
                 conds \subseteq RiskConditions(m2, ret.at)
                    => predictChurn(m2, ret.at).riskScore >= score
           /\ ret.value.level = "high" <=> score > 60
           /\ ret.value.level = "medium" <=> (score > 30 /\ score <= 60)
           /\ ret.value.level = "low" <=> score <= 30
           /\ ret.value.recommendedAction = "immediate_outreach" <=> ret.value.level = "high"
           /\ ret.value.recommendedAction = "send_reengagement" <=> ret.value.level = "medium"
           /\ ret.value.recommendedAction = "continue_normal" <=> ret.value.level = "low"

C11_Witness ==
    /\ ret.op = "predictChurn"
    /\ ~ret.input.lastActive.set
    /\ ret.input.openRate = Set(LowOpenRate - 1)
    /\ ~ret.input.lastPurchase.set
    /\ ret.value.riskScore = 90
    /\ ret.value.level = "high"
    /\ ret.value.recommendedAction = "immediate_outreach"

NextSendTime ==
    \/ \E at \in SentAts, opened \in BOOLEAN :
          TrackEmail(<<"Quick", "question">>, at, opened, FALSE)
    \/ PredictBestSendTime

SpecSendTime == Init /\ [][NextSendTime]_vars

StoredEmails == loadMetrics("email_performance")

\* C12: with fewer than 100 email_performance records stored,
\* predictBestSendTime returns exactly bestTime "10:00", day "Tuesday",
\* confidence "low", whatever those records contain.
C12_FewEmailsGiveDefaultTime ==
    (ret.op = "predictBestSendTime" /\ Len(StoredEmails) < MinSendTimeEmails) =>
        ret.value = [bestTime |-> TimeText(10), day |-> "Tuesday", confidence |-> "low"]

C12_Witness ==
    /\ ret.op = "predictBestSendTime"
    /\ Len(StoredEmails) = MinSendTimeEmails - 1
    /\ \A i \in 1..Len(StoredEmails) :
          StoredEmails[i].opened /\ StoredEmails[i].sentAt = Afternoon

\* the hours (days) at which an opened email of the store was sent
OpenedKeys(field) ==
    {StoredEmails[i].sentAt[field] : i \in {j \in 1..Len(StoredEmails) : StoredEmails[j].opened}}

\* those with the largest number of opened emails
MaxKeys(field) ==
    {k \in OpenedKeys(field) :
        \A k2 \in OpenedKeys(field) : Opens(StoredEmails, field, k) >= Opens(StoredEmails, field, k2)}

\* the place in the store of the first opened email sent at that hour (day)
FirstSeen(field, k) ==
    CHOOSE i \in 1..Len(StoredEmails) :
        /\ StoredEmails[i].opened /\ StoredEmails[i].sentAt[field] = k
        /\ \A j \in 1..(i - 1) : ~(StoredEmails[j].opened /\ StoredEmails[j].sentAt[field] = k)

FirstSeenMax(field) ==
    CHOOSE k \in MaxKeys(field) :
        \A k2 \in MaxKeys(field) : FirstSeen(field, k) <= FirstSeen(field, k2)

LeastMax(field) ==
    CHOOSE k \in MaxKeys(field) : \A k2 \in MaxKeys(field) : k <= k2

SendTimeAnswered ==
    /\ ret.op = "predictBestSendTime"
    /\ Len(StoredEmails) >= MinSendTimeEmails

\* C32: past the floor predictBestSendTime returns the hour and the day with
\* the most opened emails, and of several that share the maximum the one met
\* first in the stored order of the records.
C32_TieGoesToFirstSeen ==
    (SendTimeAnswered /\ OpenedKeys("hour") # {}) =>
        /\ ret.value.bestTime = TimeText(FirstSeenMax("hour"))
        /\ ret.value.day = Days[FirstSeenMax("day") + 1]

\* C32 as the code has it: past the floor predictBestSendTime returns the
\* hour and the day with the most opened emails, and of several that share
\* the maximum the earliest hour of the day (the earliest day of the week,
\* from Sunday); with no opened email it returns 10:00 and Tuesday.
C32_TieGoesToLeastKey ==
    SendTimeAnswered =>
        IF OpenedKeys("hour") = {}
        THEN ret.value.bestTime = TimeText(10) /\ ret.value.day = "Tuesday"
        ELSE /\ ret.value.bestTime = TimeText(LeastMax("hour"))
             /\ ret.value.day = Days[LeastMax("day") + 1]

\* the afternoon email was stored first, the morning one ties with it
C32_Witness ==
    /\ SendTimeAnswered
    /\ MaxKeys("hour") = {9, 14}
    /\ FirstSeenMax("hour") = 14
    /\ ret.value.bestTime = TimeText(9)
    /\ ret.value.day = "Monday"

\* C33: past the floor predictBestSendTime returns confidence "high" exactly
\* when the number of email records is >= 500, and "medium" otherwise.
C33_HighFromThresholdOn ==
    SendTimeAnswered =>
        ret.value.confidence =
            IF Len(StoredEmails) >= HighSendTimeEmails THEN "high" ELSE "medium"

\* C33 as the code has it: past the floor predictBestSendTime returns
\* confidence "high" exactly when the number of email records is > 500, and
\* "medium" otherwise, exactly 500 records included.
C33_HighAboveThreshold ==
    SendTimeAnswered =>
        ret.value.confidence =
            IF Len(StoredEmails) > HighSendTimeEmails THEN "high" ELSE "medium"

C33_Witness ==
    /\ SendTimeAnswered
    /\ Len(StoredEmails) = HighSendTimeEmails
    /\ ret.value.confidence = "medium"

\* the score the claim gives an action type under a history, in hundredths
ClaimedScore(history, type) ==
    CASE type = "email" ->
            IF history.emailsSent.set /\ history.emailsSent.v > 3 THEN 750 ELSE 1500
      [] type = "call" -> 2500
      [] type = "discount" -> IF history.lastAction = "discount" THEN 1050 ELSE 3500
      [] type = "wait" -> 500

\* C13: recommendNextAction scores email/call/discount/wait as 15/25/35/5,
\* halves the email score when history.emailsSent > 3 and multiplies the
\* discount score by 0.3 when history.lastAction is 'discount'; recommended is
\* an entry with the maximum penalised score and alternatives are the other
\* three entries in non-increasing score order.
C13_RecommendedIsMaxScore ==
    ret.op = "recommendNextAction" =>
        LET all == <<ret.value.recommended>> \o ret.value.alternatives
        IN /\ Len(all) = 4
           /\ {all[i].type : i \in 1..4} = {"email", "call", "discount", "wait"}
           /\ \A i \in 1..4 : all[i].score = ClaimedScore(ret.input, all[i].type)
           /\ \A i \in 1..4 : ret.value.recommended.score >= all[i].score
           /\ \A i \in 1..3 : all[i].score >= all[i + 1].score

C13_Witness ==
    /\ ret.op = "recommendNextAction"
    /\ ret.input.emailsSent = Set(4)
    /\ ret.input.lastAction = "discount"
    /\ ret.value.recommended.type = "call"
    /\ ret.value.alternatives[1].type = "discount"
    /\ ret.value.alternatives[2].type = "email"

\* the list the claim gives for metrics
ClaimedAnomalies(metrics) ==
    (IF metrics.revenueChange.set /\ metrics.revenueChange.v < -50
        THEN <<[type |-> "revenue_drop", severity |-> "high"]>> ELSE <<>>)
    \o (IF metrics.bounceRate.set /\ metrics.bounceRate.v > 10
        THEN <<[type |-> "high_bounce", severity |-> "medium"]>> ELSE <<>>)
    \o (IF metrics.trafficChange.set /\ metrics.trafficChange.v > 200
        THEN <<[type |-> "traffic_spike", severity |-> "low"]>> ELSE <<>>)

\* C14: detectAnomalies returns exactly the anomalies whose threshold holds
\* (revenueChange < -50: high revenue_drop; bounceRate > 10: medium
\* high_bounce; trafficChange > 200: low traffic_spike), each check on its own,
\* in that order; the list is a function of the input metrics alone, whatever
\* was called before and whenever.
C14_AnomaliesFollowThresholds ==
    ret.op = "detectAnomalies" =>
        /\ [i \in 1..Len(ret.value) |->
                [type |-> ret.value[i].type, severity |-> ret.value[i].severity]]
              = ClaimedAnomalies(ret.input)
        /\ ret.value = detectAnomalies(ret.input)

C14_Witness ==
    /\ ret.op = "detectAnomalies"
    /\ ret.input.revenueChange = Set(-51)
    /\ ret.input.bounceRate = Set(10)
    /\ ret.input.trafficChange = Set(201)
    /\ Len(ret.value) = 2
    /\ ret.value[1].type = "revenue_drop"
    /\ ret.value[2].type = "traffic_spike"
    /\ now > 0

----------------------------------------------------------------------------
(* Claims on the training schedule                                         *)

\* stores the pipeline may find: none, enough well-formed emails to train the
\* subject-line model, and the same number with a subject that is not a string
SeedEmails(subject) ==
    [i \in 1..MinSubjectSamples |->
        [timestamp |-> i, subject |-> subject, sentAt |-> Morning, opened |-> FALSE,
         converted |-> FALSE]]

TrainStores == {<<>>, SeedEmails(<<"Quick", "question">>), SeedEmails(NoString)}

InitTrain ==
    /\ \E seed \in TrainStores :
          /\ files = [c \in Categories |->
                        IF c = "email_performance" /\ seed # <<>>
                        THEN [st |-> "valid", data |-> seed] ELSE AbsentFile]
          /\ hist = [c \in Categories |-> IF c = "email_performance" THEN seed ELSE <<>>]
    /\ weights = DefaultWeights
    /\ ret = [op |-> "none", outcome |-> "returned", value |-> "undefined"]
    /\ modelsFile = [st |-> "absent", data |-> EmptyObject]
    /\ abFile = [st |-> "absent", data |-> EmptyObject]
    /\ abLog = <<>>
    /\ lastTraining = Null
    /\ now = 1
    /\ trainPc = "idle"
    /\ trainModels = <<>>
    /\ runStartLT = Null
    /\ doneAt = Null
    /\ durableDoneAt = Null
    /\ crash = [cat |-> "none", old |-> <<>>, new |-> <<>>, n |-> 0]
    /\ ai = NewAICore
    /\ inflight = {}
    /\ outreach = NoOutreach

NextTrain ==
    \/ Tick
    \/ TrainStart
    \/ TrainPricing
    \/ TrainContent
    \/ TrainLeadScoring
    \/ TrainFinish

SpecTrain == InitTrain /\ [][NextTrain]_vars

NextTrainCrash ==
    \/ NextTrain
    \/ Restart
    \/ CrashInSaveModels

SpecTrainCrash == InitTrain /\ [][NextTrainCrash]_vars

\* C6: shouldTrain() is true while no train() run has completed, false from
\* the completion of a run up to and including 24 hours after it, and true
\* once more than 24 hours have passed since that completion.
C6_ShouldTrainFollowsLastRun ==
    shouldTrain <=> (doneAt = Null \/ now - doneAt > TrainingInterval)

C6_Witness ==
    /\ doneAt # Null
    /\ now - doneAt = TrainingInterval
    /\ ~shouldTrain

\* shouldTrain() as it answers now for the timestamp the run started with
ShouldTrainAsBefore ==
    runStartLT = Null \/ now - runStartLT > TrainingInterval

C8_TimestampSurvivesRestart ==
    (crash.n > 0 /\ durableDoneAt # Null /\ now - durableDoneAt < TrainingInterval) =>
        ~shouldTrain

----------------------------------------------------------------------------
(* Claims on training that starts by itself                                *)

\* a running AIBusiness process that no caller asks to train: its init, the
\* steps of the run init started, and time
NextAuto ==
    \/ Tick
    \/ \E env \in {e \in Envs : e.openai = "unset" /\ ~e.ollamaUp} : BusinessInit(env)
    \/ CheckOllamaSettles
    \/ TrainPricing
    \/ TrainContent
    \/ TrainLeadScoring
    \/ TrainFinish

SpecAuto == InitTrain /\ [][NextAuto]_vars

\* the process runs on: whatever it can do it does in the end, and time passes
SpecAutoFair == SpecAuto /\ WF_vars(NextAuto)

\* a run has started since the last completed one
StartedSinceLastRun == runStartLT = lastTraining

\* C28: training recurs by itself: once more than 24 hours have passed since
\* the last completed run, a new run of train() starts in the end, without a
\* caller invoking it.
C28_TrainingRecurs ==
    (lastTraining # Null /\ now - lastTraining > TrainingInterval) ~> StartedSinceLastRun

----------------------------------------------------------------------------
(* Claims on the sub-trainers                                              *)

\* a store of n records of a category, as the tracking calls leave it
SeedStore(name, n, subject) ==
    [i \in 1..n |->
        CASE name = "email_performance" -> Email(i, subject, FALSE)
          [] name = "content_performance" -> [timestamp |-> i, type |-> "blog"]
          [] OTHER -> [timestamp |-> i, outcome |-> IF name = "pricing" THEN "accepted" ELSE "sale"]]

\* the floor of the sub-trainer that reads a category
FloorOf(name) ==
    CASE name = "email_performance" -> MinSubjectSamples
      [] name = "pricing" -> MinPricingSamples
      [] name = "content_performance" -> MinContentSamples
      [] name = "conversions" -> MinLeadSamples

\* each collection one record under its floor or at it; the subjects of the
\* emails are strings, or are missing
InitSubTrainers ==
    /\ \E size \in [Categories -> {0, 1}], subject \in Subjects :
          /\ files = [c \in Categories |->
                        [st |-> "valid",
                         data |-> SeedStore(c, FloorOf(c) - 1 + size[c], subject)]]
          /\ hist = [c \in Categories |-> SeedStore(c, FloorOf(c) - 1 + size[c], subject)]
    /\ weights = DefaultWeights
    /\ ret = [op |-> "none", outcome |-> "returned", value |-> "undefined"]
    /\ modelsFile = [st |-> "absent", data |-> EmptyObject]
    /\ abFile = [st |-> "absent", data |-> EmptyObject]
    /\ abLog = <<>>
    /\ lastTraining = Null
    /\ now = 1
    /\ trainPc = "idle"
    /\ trainModels = <<>>
    /\ runStartLT = Null
    /\ doneAt = Null
    /\ durableDoneAt = Null
    /\ crash = [cat |-> "none", old |-> <<>>, new |-> <<>>, n |-> 0]
    /\ ai = NewAICore
    /\ inflight = {}
    /\ outreach = NoOutreach

\* runs of train() at one reading of the clock
NextSubTrainers ==
    \/ TrainStart
    \/ TrainPricing
    \/ TrainContent
    \/ TrainLeadScoring
    \/ TrainFinish

SpecSubTrainers == InitSubTrainers /\ [][NextSubTrainers]_vars

\* the sub-trainers in the order of train(), each with the collection it reads
SubTrainers ==
    <<[name |-> "subject_line", reads |-> "email_performance"],
      [name |-> "pricing", reads |-> "pricing"],
      [name |-> "content", reads |-> "content_performance"],
      [name |-> "lead_scoring", reads |-> "conversions"]>>

\* the result record is the one the claim gives the i-th sub-trainer
AsClaimed(result, i) ==
    LET n == Len(loadMetrics(SubTrainers[i].reads))
    IN /\ result.name = SubTrainers[i].name
       /\ IF n < FloorOf(SubTrainers[i].reads)
          THEN result = [name |-> SubTrainers[i].name, status |-> "insufficient_data",
                         samples |-> n]
          ELSE "status" \notin DOMAIN result

\* C35: train() runs subject_line, pricing, content, lead_scoring in that
\* order and returns exactly their four result records in that order; a
\* record is insufficient_data, with the sample count, exactly when the
\* collection is under its floor (50, 30, 20, 50); what one sub-trainer does
\* never changes the outcome of another, so every call ends with four records.
C35_FourIndependentResults ==
    /\ ret.op = "train" => ret.outcome \in {"pending", "returned"}
    /\ Len(trainModels) <= 4
    /\ \A i \in 1..Len(trainModels) : AsClaimed(trainModels[i], i)
    /\ (ret.op = "train" /\ ret.outcome = "returned") =>
          /\ modelsFile.st = "valid"
          /\ \A i \in 1..4 : AsClaimed(modelsFile.data[SubTrainers[i].name], i)

----------------------------------------------------------------------------
(* Claims on loads of the model store and of the ledger                    *)

NextDegrade ==
    \/ TrainStart
    \/ TrainPricing
    \/ TrainContent
    \/ TrainLeadScoring
    \/ TrainFinish
    \/ CrashInSaveModels
    \/ CrashInABWrite
    \/ LoadModels
    \/ \E name \in {"pricing", "custom"} : GetModel(name)
    \/ trainPc = "idle" /\ \E t \in TestIds : RunABTest(t, "A", "B")
    \/ trainPc = "idle" /\ \E t \in TestIds, v \in Variants : RecordABResult(t, v, TRUE)

SpecDegrade == Init /\ [][NextDegrade]_vars

\* C36: loads of the model store and of the A/B ledger degrade as metric
\* loads do: on a file that is unreadable or corrupt, loadModels, getModel,
\* the merge inside train(), runABTest and recordABResult go on as with an
\* empty store and do not fail their caller.
C36_StoreLoadsDegrade ==
    ret.op \in {"loadModels", "getModel", "train", "runABTest", "recordABResult"} =>
        ret.outcome # "threw"

----------------------------------------------------------------------------
(* Claims on the A/B ledger                                                *)

NextAB ==
    \/ \E t \in TestIds : RunABTest(t, "A", "B")
    \/ \E t \in TestIds, v \in Variants, c \in BOOLEAN : RecordABResult(t, v, c)

SpecAB == Init /\ [][NextAB]_vars

\* the calls recorded on test t since it was created, for variant v
Recorded(t, v) == SelectSeq(abLog, LAMBDA e : e.id = t /\ e.variant = v)
RecordedConverted(t, v) == SelectSeq(abLog, LAMBDA e : e.id = t /\ e.variant = v /\ e.converted)

\* C5: each recordABResult on an existing test adds one to the exposure
\* counter of the named variant (a for 'A', b for 'B'), one to its conversion
\* counter only when converted is true, and nothing to the other variant: the
\* counters of a test are the numbers of such calls since runABTest created it
\* (after A,true; A,true; B,false: a = 2, aConversions = 2, b = 1, bConversions = 0).
C5_CountersCountCalls ==
    abFile.st = "valid" =>
        \A t \in DOMAIN abFile.data :
            abFile.data[t].results =
                [a |-> Len(Recorded(t, "A")), b |-> Len(Recorded(t, "B")),
                 aConversions |-> Len(RecordedConverted(t, "A")),
                 bConversions |-> Len(RecordedConverted(t, "B"))]

\* C38: in every state of the ledger, every test record has
\* aConversions <= a and bConversions <= b, and none of its four counters is
\* negative.
C38_ConversionsWithinExposures ==
    abFile.st = "valid" =>
        \A t \in DOMAIN abFile.data :
            LET results == abFile.data[t].results
            IN /\ results.aConversions <= results.a
               /\ results.bConversions <= results.b
               /\ results.a >= 0 /\ results.b >= 0
               /\ results.aConversions >= 0 /\ results.bConversions >= 0

Counters == {"a", "b", "aConversions", "bConversions"}

\* C18: the counters of a test record are changed only by recordABResult and
\* only upwards: no step, a further runABTest with an existing id included,
\* lowers or resets a counter of an existing record or removes a record.
C18_CountersOnlyGrow ==
    [][abFile.st = "valid" =>
          /\ abFile'.st = "valid"
          /\ \A t \in DOMAIN abFile.data :
                /\ t \in DOMAIN abFile'.data
                /\ \A k \in Counters :
                      abFile'.data[t].results[k] >= abFile.data[t].results[k]
                /\ abFile'.data[t].results # abFile.data[t].results
                      => ret'.op = "recordABResult"]_vars

\* C19: recordABResult with a test id that is not in the ledger, or with no
\* ledger at all, raises no error and leaves the ledger, every other test's
\* counters included, unchanged.
C19_UnknownTestIgnored ==
    [][(/\ ret'.op = "recordABResult"
        /\ \/ abFile.st = "absent"
           \/ abFile.st = "valid" /\ ret'.testId \notin DOMAIN abFile.data)
          => (ret'.outcome = "returned" /\ abFile' = abFile)]_vars

C19_Witness ==
    /\ ret.op = "recordABResult"
    /\ ret.outcome = "returned"
    /\ abFile.st = "valid"
    /\ ret.testId \notin DOMAIN abFile.data
    /\ \E t \in DOMAIN abFile.data : abFile.data[t].results.b > 0

----------------------------------------------------------------------------
(* Claims on the model store                                               *)

\* a record stored under a name that no sub-trainer uses
ForeignModel == [name |-> "custom", type |-> "custom", trainedAt |-> 0]

InitModels ==
    /\ \E seed \in TrainStores :
          /\ files = [c \in Categories |->
                        IF c = "email_performance" /\ seed # <<>>
                        THEN [st |-> "valid", data |-> seed] ELSE AbsentFile]
          /\ hist = [c \in Categories |-> IF c = "email_performance" THEN seed ELSE <<>>]
    /\ weights = DefaultWeights
    /\ ret = [op |-> "none", outcome |-> "returned", value |-> "undefined"]
    /\ modelsFile \in {[st |-> "absent", data |-> EmptyObject],
                        [st |-> "valid", data |-> Put(EmptyObject, "custom", ForeignModel)]}
    /\ abFile = [st |-> "absent", data |-> EmptyObject]
    /\ abLog = <<>>
    /\ lastTraining = Null
    /\ now = 1
    /\ trainPc = "idle"
    /\ trainModels = <<>>
    /\ runStartLT = Null
    /\ doneAt = Null
    /\ durableDoneAt = Null
    /\ crash = [cat |-> "none", old |-> <<>>, new |-> <<>>, n |-> 0]
    /\ ai = NewAICore
    /\ inflight = {}
    /\ outreach = NoOutreach

SpecModels == InitModels /\ [][NextTrain]_vars

ModelNames == {"subject_line", "pricing", "content", "lead_scoring"}

----------------------------------------------------------------------------
(* Claims on when train() writes the model store                           *)

\* runs of train() between which emails are tracked, some with a subject
\* that is not a string
NextSingleWrite ==
    \/ NextSubTrainers
    \/ \E subject \in Subjects : TrackEmail(subject, Morning, FALSE, FALSE)

SpecSingleWrite == InitModels /\ [][NextSingleWrite]_vars

\* C39: train() writes the model store only once, after all four
\* sub-trainers have returned: no other step of a run changes the persisted
\* store, and a run that fails leaves it exactly as it was.
C39_StoreWrittenOnceAfterAllFour ==
    [][/\ modelsFile' # modelsFile =>
             /\ trainPc = "await_lead_scoring"
             /\ Len(trainModels) = 4
             /\ trainPc' = "idle"
             /\ ret'.op = "train" /\ ret'.outcome = "returned"
       /\ (ret'.op = "train" /\ ret'.outcome = "threw") => modelsFile' = modelsFile]_vars

C39_Witness ==
    /\ ret.op = "train"
    /\ ret.outcome = "threw"
    /\ modelsFile.st = "valid"
    /\ ModelNames \subseteq DOMAIN modelsFile.data

----------------------------------------------------------------------------
(* Claims on the outreach                                                  *)

NextOutreach ==
    \/ \E env \in Envs : AIInit(env)
    \/ CheckOllamaSettles
    \/ \E q \in 0..LeadsGenerated : RunOutreach(q)
    \/ \E content \in TemplateEmails \cup {GeneratedEmail, OtherObject, ResponseText, NullValue} :
          SendOutreachComposes(content)
    \/ \E reply \in SendReplies : SendSettles(reply)
    \/ RunOutreachReturns

SpecOutreach == Init /\ [][NextOutreach]_vars

\* C40: sendOutreach appends an email_performance record only after the send
\* for the lead has succeeded, and none when it returns success: false for a
\* failed generation or send: the records appended during a runOutreach never
\* exceed its successful sends, which never exceed the daily limit.
C40_AppendsWithinSuccessfulSends ==
    /\ outreach.appended <= outreach.delivered
    /\ outreach.delivered <= DailyLimit

====
